---- MODULE Spec2Model ----
(***************************************************************************)
(* Associative-memory energy engines of the amtutorial notebooks.          *)
(*                                                                         *)
(* Discrete part (00_dense_storage): BinaryAM with its three energies      *)
(* (CHN, PolynomialDenseAM, ExponentialDenseAM), async_update and          *)
(* async_recall.  Continuous part (01_energy_transformer): the gradient    *)
(* descent loops energy_recall and ImageEnergyTransformer.__call__.        *)
(*                                                                         *)
(* Numbers.  The notebooks compute in floating point; the model computes   *)
(* in exact integer arithmetic.  An energy is represented by the integer   *)
(* E * EnergyUnit(am): twice the energy for CHN (the factor 0.5), n times  *)
(* the energy for PolynomialDenseAM (the factor 1/n), and FixScale times   *)
(* the energy for ExponentialDenseAM, whose exp and log are fixed-point    *)
(* with FixScale steps per unit.  Two energies are only ever compared      *)
(* under the same am, so the unit never changes a comparison.              *)
(***************************************************************************)
EXTENDS Integers, Sequences, FiniteSets, TLC

VARIABLES
    am,                 \* the energy function object (its class and fields)
    nsteps,             \* async_recall's step budget
    sigma0,             \* per query: the caller's initial query
    key,                \* per query: the PRNG key
    pc,                 \* per query: "idle", "call", "scan" or "done"
    bitflip_sequence,   \* per query: the indices drawn by jr.choice
    sigma,              \* per query: the carry of lax.scan
    frames,             \* per query: the stacked sigma_new outputs
    energies,           \* per query: the stacked energy_new outputs
    final_x,            \* per query: the returned final pattern
    probe,              \* the energies of one evaluation, <<>> before it
    gd_args,            \* gradient descent: fn, x_init, nsteps, step_size
    gd_model,           \* gradient descent: the et and lnorm objects
    gd_pc,              \* gradient descent: "idle", "call", "scan" or "done"
    gd_x,               \* gradient descent: the carry x of lax.scan
    traj_outputs,       \* gradient descent: the stacked energy and xhat
    gd_ret,             \* gradient descent: what the function returned
    call                \* one direct call: fn, args, pc, ret and raised

recall_vars == <<am, nsteps, sigma0, key, pc, bitflip_sequence, sigma, frames,
                 energies, final_x>>

gd_vars == <<gd_args, gd_model, gd_pc, gd_x, traj_outputs, gd_ret>>

vars == <<recall_vars, probe, gd_vars, call>>

(***************************************************************************)
(* Bounds of the model.                                                    *)
(***************************************************************************)
Dim == 2            \* D, the pattern length, of the single recall
MaxK == 1           \* largest number K of stored patterns, single recall
MaxSteps == 2       \* largest nsteps, single recall
StoredDim == 2      \* D, K and nsteps of the recalls of a stored pattern
StoredMaxK == 3
StoredSteps == 1
TwiceDim == 2       \* D, K and nsteps of the repeated recall
TwiceMaxK == 1
TwiceSteps == 1
BatchDim == 2       \* D, K, nsteps and parent keys of the batched recall
BatchMaxK == 1
BatchSteps == 1
BatchKeys == 1
EnergyDim == 3      \* D and K of the single energy evaluations
EnergyMaxK == 2
GdTokens == 2       \* N (with the CLS token), D and nsteps of gradient descent
GdDim == 2
GdSteps == 2
ShapeDim == 2       \* D, K and nsteps of the calls with queries of any length
ShapeMaxK == 1
ShapeSteps == 1
PatchMaxC == 2      \* the most channels and the longest side of an image
PatchMaxSide == 2
TokMaxN == 3        \* the most tokens given to corrupt_tokens
CacheCalls == 2     \* the most calls of get_cache_dir in one process
CachedCalls == 2    \* the most calls of cached_recall in one session
BetaMaxY == 8       \* head dimensions Y of an ETConfig
BetaMaxEighths == 8 \* supplied beta, in eighths
DescentSteps == 3   \* gradient-descent steps from tokens near the origin
FairDim == 3        \* D and K of the unbounded recalls
FairMaxK == 1
InvDim == 5         \* D of the unbounded recalls on one stored pattern
LseDim == 3         \* D and nsteps of the recalls on three stored patterns
LseSteps == 1
UpdDim == 2         \* D and K of the single async_update calls
UpdMaxK == 2
SpritePixels == 2   \* the pixels of a sprite
CtorDim == 2        \* D, K and the largest |n| of the constructor calls
CtorMaxK == 1
CtorMaxN == 2

Degrees == {1, 2, 3}    \* the polynomial degrees n that are tried
Betas == {1, 2}         \* the inverse temperatures beta that are tried

(***************************************************************************)
(* Vectors and matrices.                                                   *)
(***************************************************************************)
Bipolar == {-1, 1}

Patterns(D) == [1..D -> Bipolar]

Matrices(D, maxK) == UNION {[1..K -> Patterns(D)] : K \in 1..maxK}

RECURSIVE SumSeq(_)
SumSeq(s) == IF s = <<>> THEN 0 ELSE Head(s) + SumSeq(Tail(s))

RECURSIVE MaxSeq(_)
MaxSeq(s) ==
    IF Len(s) = 1 THEN s[1]
    ELSE LET m == MaxSeq(Tail(s)) IN IF Head(s) > m THEN Head(s) ELSE m

RECURSIVE Pow(_, _)
Pow(x, n) == IF n = 0 THEN 1 ELSE x * Pow(x, n - 1)

Dot(a, b) == SumSeq([i \in DOMAIN a |-> a[i] * b[i]])

\* Xi @ sigma
MatVec(Xi, s) == [mu \in DOMAIN Xi |-> Dot(Xi[mu], s)]

\* Xi @ sigma is defined when sigma has as many entries as Xi has columns.
MatMulDefined(Xi, s) == \A mu \in DOMAIN Xi : Len(Xi[mu]) = Len(s)

Negate(s) == [i \in DOMAIN s |-> -s[i]]

\* The rank of a pattern in the order that reads +1 as the binary digit 1.
Code(p) == SumSeq([i \in DOMAIN p |-> IF p[i] = 1 THEN 2^(i - 1) ELSE 0])

\* The memory matrices whose rows are in nondecreasing order.  Every energy
\* is a sum over the rows, so each matrix has the energy function of the
\* matrix with its rows sorted.
SortedMatrices(D, maxK) ==
    {Xi \in Matrices(D, maxK) :
        \A i \in DOMAIN Xi : \A j \in DOMAIN Xi :
            i < j => Code(Xi[i]) <= Code(Xi[j])}

Rows(Xi) == {Xi[mu] : mu \in DOMAIN Xi}

IsBipolar(v) == \A i \in DOMAIN v : v[i] \in Bipolar

\* flip_some_bits: x * jr.choice(key, [-1, 1], p, shape=x.shape); draw is
\* the array of -1 and +1 that jr.choice returns.
flip_some_bits(draw, x) == [i \in DOMAIN x |-> x[i] * draw[i]]

\* The queries the notebook builds: a pattern with some of its bits flipped.
NoisyQueries(D) ==
    {flip_some_bits(draw, x) : draw \in Patterns(D), x \in Patterns(D)}

(***************************************************************************)
(* Fixed-point exp and log for jax.nn.logsumexp.                           *)
(***************************************************************************)
FixScale == 10^4

\* exp(-k) for a natural k, in FixScale units (exp(-1) = 0.3679); it is 0
\* from k = 9 on.
RECURSIVE ExpNeg(_)
ExpNeg(k) ==
    IF k = 0 THEN FixScale
    ELSE IF k > 10 THEN 0
    ELSE (ExpNeg(k - 1) * 3679) \div FixScale

\* z + z^3/3 + z^5/5 + ... up to the power jmax, zpow = z^j, z2 = z^2.
RECURSIVE AtanhTerms(_, _, _, _)
AtanhTerms(zpow, z2, j, jmax) ==
    IF j > jmax \/ zpow = 0 THEN 0
    ELSE (zpow \div j) + AtanhTerms((zpow * z2) \div FixScale, z2, j + 2, jmax)

\* log(y) for y >= 1, y and the result in FixScale units:
\* log y = 2 atanh((y - 1) / (y + 1)).
Log(y) ==
    LET z == ((y - FixScale) * FixScale) \div (y + FixScale)
    IN  2 * AtanhTerms(z, (z * z) \div FixScale, 1, 25)

\* logsumexp of a vector x of integers, in FixScale units: the maximum is
\* subtracted before exponentiating.
LogSumExp(x) ==
    LET c == MaxSeq(x)
    IN  c * FixScale + Log(SumSeq([mu \in DOMAIN x |-> ExpNeg(c - x[mu])]))

(***************************************************************************)
(* The energy functions.                                                   *)
(***************************************************************************)
CHN(Xi) == [cls |-> "CHN", Xi |-> Xi]

PolynomialDenseAM(Xi, n, rectified) ==
    [cls |-> "PolynomialDenseAM", Xi |-> Xi, n |-> n, rectified |-> rectified]

ExponentialDenseAM(Xi, beta) ==
    [cls |-> "ExponentialDenseAM", Xi |-> Xi, beta |-> beta]

\* The unit in which energy(am, .) counts: energy(am, s) = E(s) * EnergyUnit(am).
EnergyUnit(self) ==
    CASE self.cls = "CHN" -> 2
      [] self.cls = "PolynomialDenseAM" -> self.n
      [] self.cls = "ExponentialDenseAM" -> FixScale

\* Mutant of CHN_energy: the square is left out.
CHN_energy_unsquared(self, s) == -SumSeq(MatVec(self.Xi, s))

\* -0.5 * jnp.sum((self.Xi @ sigma)**2)
CHN_energy(self, s) ==
    LET sims == MatVec(self.Xi, s)
    IN  -SumSeq([mu \in DOMAIN sims |-> sims[mu] * sims[mu]])

\* Mutant of F_n: the rectification takes the absolute value, not the clip.
F_n_abs(self, sims) ==
    LET clipped == [mu \in DOMAIN sims |->
                      IF self.rectified /\ sims[mu] < 0 THEN -sims[mu]
                      ELSE sims[mu]]
    IN  [mu \in DOMAIN sims |-> Pow(clipped[mu], self.n)]

\* n * F_n(sims), elementwise: sims.clip(0) if rectified, then sims ** n.
F_n(self, sims) ==
    LET clipped == [mu \in DOMAIN sims |->
                      IF self.rectified /\ sims[mu] < 0 THEN 0 ELSE sims[mu]]
    IN  [mu \in DOMAIN sims |-> Pow(clipped[mu], self.n)]

\* -jnp.sum(self.F_n(self.Xi @ sigma))
PolynomialDenseAM_energy(self, s) == -SumSeq(F_n(self, MatVec(self.Xi, s)))

\* Mutant of ExponentialDenseAM_energy: the minus sign is left out.
ExponentialDenseAM_energy_positive(self, s) ==
    LET sims == MatVec(self.Xi, s)
    IN  LogSumExp([mu \in DOMAIN sims |-> self.beta * sims[mu]])

\* -jax.nn.logsumexp(self.beta * self.Xi @ sigma)
ExponentialDenseAM_energy(self, s) ==
    LET sims == MatVec(self.Xi, s)
    IN  -LogSumExp([mu \in DOMAIN sims |-> self.beta * sims[mu]])

\* The order of the un-logged energy -sum_mu exp(beta * Xi_mu . sigma) of the
\* notebook, in exact arithmetic.  An overlap is -D + 2 m with m in 0..D, so
\* the sum is exp(-beta D) * sum_mu x^m_mu with x = exp(2 beta); for
\* x > K (beta >= 1, K <= 7) sums of K powers of x are ordered as the same
\* sums of powers of K + 1.  UnloggedSum is larger exactly when the
\* un-logged energy is lower.
UnloggedSum(self, s) ==
    LET sims == MatVec(self.Xi, s)
    IN  SumSeq([mu \in DOMAIN sims |->
                  Pow(Len(self.Xi) + 1, (sims[mu] + Len(s)) \div 2)])

\* self.energy(sigma), dispatched on the class of self.
energy(self, s) ==
    CASE self.cls = "CHN" -> CHN_energy(self, s)
      [] self.cls = "PolynomialDenseAM" -> PolynomialDenseAM_energy(self, s)
      [] self.cls = "ExponentialDenseAM" -> ExponentialDenseAM_energy(self, s)

\* The energy function objects over the memory matrices Xis.
AMs(Xis) ==
    {CHN(Xi) : Xi \in Xis}
    \cup {PolynomialDenseAM(Xi, n, r) : Xi \in Xis, n \in Degrees, r \in BOOLEAN}
    \cup {ExponentialDenseAM(Xi, b) : Xi \in Xis, b \in Betas}

(***************************************************************************)
(* Continuous part: fixed-point reals with Unit steps per unit.            *)
(***************************************************************************)
Unit == 10^3

Mul(a, b) == (a * b) \div Unit

Div(a, b) == (a * Unit) \div b

\* The array of a comprehension, its entries evaluated once.
Array(f) == SubSeq(f, 1, Len(f))

\* The largest r in lo..hi with r * r <= n.
RECURSIVE SqrtSearch(_, _, _)
SqrtSearch(n, lo, hi) ==
    IF lo = hi THEN lo
    ELSE LET mid == (lo + hi + 1) \div 2
         IN  IF mid * mid <= n THEN SqrtSearch(n, mid, hi)
             ELSE SqrtSearch(n, lo, mid - 1)

ISqrt(n) == SqrtSearch(n, 0, IF n < 46340 THEN n ELSE 46340)

\* 1 - f + f^2/2 - f^3/6 + ... for 0 <= f < 1, term = (-f)^j / j!.
RECURSIVE ExpTaylor(_, _, _, _)
ExpTaylor(term, f, j, jmax) ==
    IF j > jmax \/ term = 0 THEN 0
    ELSE term + ExpTaylor((-(term * f)) \div (Unit * (j + 1)), f, j + 1, jmax)

RECURSIVE ExpNegWhole(_)
ExpNegWhole(k) ==
    IF k = 0 THEN Unit ELSE (ExpNegWhole(k - 1) * 368) \div Unit

\* exp(-t) for t >= 0.
ExpNegU(t) ==
    IF t >= 8 * Unit THEN 0
    ELSE Mul(ExpNegWhole(t \div Unit), ExpTaylor(Unit, t % Unit, 0, 9))

RECURSIVE AtanhTermsU(_, _, _, _)
AtanhTermsU(zpow, z2, j, jmax) ==
    IF j > jmax \/ zpow = 0 THEN 0
    ELSE (zpow \div j) + AtanhTermsU(Mul(zpow, z2), z2, j + 2, jmax)

\* log(y) for y >= 1.
LogU(y) ==
    LET z == Div(y - Unit, y + Unit)
    IN  2 * AtanhTermsU(z, Mul(z, z), 1, 25)

\* The weights b[k] * exp(a[k] - c) of jax.nn.logsumexp(a, b=b), c the
\* maximum of the a[k] with b[k] # 0.
LseMax(a, b) ==
    LET allowed == {k \in DOMAIN a : b[k] # 0}
    IN  CHOOSE c \in {a[k] : k \in allowed} : \A k \in allowed : a[k] <= c

LseWeights(a, b) ==
    LET c == LseMax(a, b)
    IN  Array([k \in DOMAIN a |-> IF b[k] = 0 THEN 0 ELSE b[k] * ExpNegU(c - a[k])])

\* jax.nn.logsumexp(a, b=b)
LogSumExpB(a, b) == LseMax(a, b) + LogU(SumSeq(LseWeights(a, b)))

\* ETConfig.get_beta: self.beta or 1/jnp.sqrt(self.Y)
None == "None"

\* The Optional[float] field beta is <<>> for None and <<b>> for a float b.
get_beta(config) ==
    IF config.beta = <<>> \/ config.beta = <<0>>
    THEN (Unit * Unit) \div ISqrt(config.Y * Unit * Unit)
    ELSE config.beta[1]

\* EnergyLayerNorm.__call__ on one row; eps is kept in Unit * Unit steps.
LnormRow(ln, row) ==
    LET D == Len(row)
        mean == SumSeq(row) \div D
        xmeaned == [i \in 1..D |-> row[i] - mean]
        var2 == SumSeq([i \in 1..D |-> xmeaned[i] * xmeaned[i]]) \div D
        denom == ISqrt(var2 + ln.eps2)
        v == [i \in 1..D |-> (ln.gamma * xmeaned[i]) \div denom]
    IN  Array(IF ln.use_bias THEN [i \in 1..D |-> v[i] + ln.delta[i]] ELSE v)

lnorm_call(ln, x) == Array([n \in DOMAIN x |-> LnormRow(ln, x[n])])

\* jnp.einsum("kd,hdy->khy", xhat, W)
Project(xhat, W) ==
    Array([k \in DOMAIN xhat |-> Array([h \in DOMAIN W |->
        Array([y \in DOMAIN W[h][1] |->
            SumSeq([d \in DOMAIN xhat[k] |-> Mul(xhat[k][d], W[h][d][y])])])])])

\* bmask: ones((N, N)) - eye(N) when self-attention is prevented.
Bmask(config, N) ==
    [q \in 1..N |-> [k \in 1..N |->
        IF config.prevent_self_attention /\ q = k THEN 0 ELSE 1]]

\* beta * jnp.einsum("khy,qhy->hqk", K, Q)
Scores(et, xhat) ==
    LET K == Project(xhat, et.Wk)
        Q == Project(xhat, et.Wq)
        beta == get_beta(et.config)
    IN  Array([h \in DOMAIN et.Wk |-> Array([q \in DOMAIN xhat |->
            Array([k \in DOMAIN xhat |->
                Mul(beta,
                    SumSeq([y \in DOMAIN K[k][h] |->
                        Mul(K[k][h][y], Q[q][h][y])]))])])])

attn_energy(et, xhat) ==
    LET a == Scores(et, xhat)
        bmask == Bmask(et.config, Len(xhat))
        A == [h \in DOMAIN a |-> [q \in DOMAIN xhat |->
                 LogSumExpB(a[h][q], bmask[q])]]
    IN  Mul(Div(-Unit, get_beta(et.config)),
            SumSeq([h \in DOMAIN A |-> SumSeq(A[h])]))

\* jnp.einsum("nd,md->nm", xhat, self.Xi).clip(0)
Hid(et, xhat) ==
    Array([n \in DOMAIN xhat |-> Array([m \in DOMAIN et.Xi |->
        LET hid == SumSeq([d \in DOMAIN xhat[n] |-> Mul(xhat[n][d], et.Xi[m][d])])
        IN  IF hid < 0 THEN 0 ELSE hid])])

hn_energy(et, xhat) ==
    LET hid == Hid(et, xhat)
    IN  (-SumSeq([n \in DOMAIN hid |->
                    SumSeq([m \in DOMAIN hid[n] |-> Mul(hid[n][m], hid[n][m])])]))
        \div 2

\* EnergyTransformer.energy
et_energy(et, xhat) == attn_energy(et, xhat) + hn_energy(et, xhat)

(***************************************************************************)
(* BinaryAM.async_update and BinaryAM.async_recall.                        *)
(***************************************************************************)
\* Mutant of FlipBit: .at[idx].add(-1) in place of .at[idx].multiply(-1).
FlipBit_add(s, idx) == [s EXCEPT ![idx + 1] = @ - 1]

\* Mutant of FlipBit: the entry after idx is the one multiplied by -1.
FlipBit_next(s, idx) == [s EXCEPT ![((idx + 1) % Len(s)) + 1] = -1 * @]

\* sigma with entry idx (0-based) multiplied by -1, on a copy.
FlipBit(s, idx) == [s EXCEPT ![idx + 1] = -1 * @]

\* Mutant of async_update: the flip is kept without comparing the energies.
async_update_always(self, s, idx) ==
    LET sigma_flipped == FlipBit(s, idx)
    IN  <<sigma_flipped, energy(self, sigma_flipped)>>

\* Mutant of async_update: a tie keeps the flip (<= 0 in place of < 0).
async_update_ties(self, s, idx) ==
    LET sigma_flipped == FlipBit(s, idx)
        energy_og == energy(self, s)
        energy_flipped == energy(self, sigma_flipped)
        keep_flip == (energy_flipped - energy_og) <= 0
    IN  IF keep_flip THEN <<sigma_flipped, energy_flipped>>
        ELSE <<s, energy_og>>

\* Mutant of async_update: a rejected flip still reports the energy of the
\* flipped state.
async_update_flipped_energy(self, s, idx) ==
    LET sigma_flipped == FlipBit(s, idx)
        energy_og == energy(self, s)
        energy_flipped == energy(self, sigma_flipped)
        keep_flip == (energy_flipped - energy_og) < 0
    IN  IF keep_flip THEN <<sigma_flipped, energy_flipped>>
        ELSE <<s, energy_flipped>>

\* async_update: <<next state, its energy>>.
async_update(self, s, idx) ==
    LET sigma_flipped == FlipBit(s, idx)
        energy_og == energy(self, s)
        energy_flipped == energy(self, sigma_flipped)
        keep_flip == (energy_flipped - energy_og) < 0
    IN  IF keep_flip THEN <<sigma_flipped, energy_flipped>>
        ELSE <<s, energy_og>>

\* The keys that give distinct draws of nst indices below D.
Keys(D, nst) == 0..(Pow(D, nst) - 1)

Queries == DOMAIN pc

\* Mutant of Choice: the generator is process-wide state that every finished
\* call has advanced, not a function of the key alone.
Choice_global(k, D, nst) ==
    LET used == Cardinality({q \in Queries : pc[q] = "done"})
    IN  [t \in 1..nst |-> ((k + used) \div Pow(D, t - 1)) % D]

\* jr.choice(key, np.arange(D), shape=(nsteps,)): a function of the key alone
\* (the digits of the key in base D), every index sequence drawn by some key.
Choice(k, D, nst) == [t \in 1..nst |-> (k \div Pow(D, t - 1)) % D]

\* Mutant of AsyncRecallCall: the key is not mapped over the batch, every
\* query draws with the first key.
AsyncRecallCall_one_key(q) ==
    /\ pc[q] = "call"
    /\ bitflip_sequence' =
          [bitflip_sequence EXCEPT ![q] = Choice(key[1], Len(sigma0[q]), nsteps)]
    /\ sigma' = [sigma EXCEPT ![q] = sigma0[q]]
    /\ pc' = [pc EXCEPT ![q] = "scan"]
    /\ UNCHANGED <<am, nsteps, sigma0, key, frames, energies, final_x, probe,
                   gd_vars, call>>

\* Mutant of AsyncRecallCall: the shapes are only met when the first step
\* runs, after its output slot has been written.
AsyncRecallCall_late_error(q) ==
    /\ pc[q] = "call"
    /\ bitflip_sequence' =
          [bitflip_sequence EXCEPT ![q] = Choice(key[q], Len(sigma0[q]), nsteps)]
    /\ sigma' = [sigma EXCEPT ![q] = sigma0[q]]
    /\ IF MatMulDefined(am.Xi, sigma0[q])
       THEN pc' = [pc EXCEPT ![q] = "scan"] /\ UNCHANGED frames
       ELSE /\ pc' = [pc EXCEPT ![q] = "TypeError"]
            /\ frames' = [frames EXCEPT ![q] = <<sigma0[q]>>]
    /\ UNCHANGED <<am, nsteps, sigma0, key, energies, final_x, probe,
                   gd_vars, call>>

\* The call of the jitted async_recall: the whole function is traced first,
\* and tracing self.Xi @ sigma in the scanned step raises on mismatched
\* shapes, so nothing of the call has run when it raises.
AsyncRecallCall(q) ==
    /\ pc[q] = "call"
    /\ IF MatMulDefined(am.Xi, sigma0[q])
       THEN /\ bitflip_sequence' =
                  [bitflip_sequence EXCEPT
                      ![q] = Choice(key[q], Len(sigma0[q]), nsteps)]
            /\ sigma' = [sigma EXCEPT ![q] = sigma0[q]]
            /\ pc' = [pc EXCEPT ![q] = "scan"]
       ELSE /\ pc' = [pc EXCEPT ![q] = "TypeError"]
            /\ UNCHANGED <<bitflip_sequence, sigma>>
    /\ UNCHANGED <<am, nsteps, sigma0, key, frames, energies, final_x, probe,
                   gd_vars, call>>

\* Mutant of UpdateStep: the step emits the carry it was given, not the
\* updated state.
UpdateStep_emit_carry(q) ==
    /\ pc[q] = "scan"
    /\ Len(frames[q]) < Len(bitflip_sequence[q])
    /\ LET idx == bitflip_sequence[q][Len(frames[q]) + 1]
           new == async_update(am, sigma[q], idx)
       IN  /\ sigma' = [sigma EXCEPT ![q] = new[1]]
           /\ frames' = [frames EXCEPT ![q] = Append(@, sigma[q])]
           /\ energies' = [energies EXCEPT ![q] = Append(@, energy(am, sigma[q]))]
    /\ UNCHANGED <<am, nsteps, sigma0, key, pc, bitflip_sequence, final_x,
                   probe, gd_vars, call>>

\* Mutant of UpdateStep: the flip is written into the caller's array, not
\* into a copy.
UpdateStep_in_place(q) ==
    /\ pc[q] = "scan"
    /\ Len(frames[q]) < Len(bitflip_sequence[q])
    /\ LET idx == bitflip_sequence[q][Len(frames[q]) + 1]
           new == async_update(am, sigma[q], idx)
       IN  /\ sigma' = [sigma EXCEPT ![q] = new[1]]
           /\ sigma0' = [sigma0 EXCEPT ![q] = new[1]]
           /\ frames' = [frames EXCEPT ![q] = Append(@, new[1])]
           /\ energies' = [energies EXCEPT ![q] = Append(@, new[2])]
    /\ UNCHANGED <<am, nsteps, key, pc, bitflip_sequence, final_x,
                   probe, gd_vars, call>>

\* One iteration of lax.scan(update_step, sigma0, bitflip_sequence).
UpdateStep(q) ==
    /\ pc[q] = "scan"
    /\ Len(frames[q]) < Len(bitflip_sequence[q])
    /\ LET idx == bitflip_sequence[q][Len(frames[q]) + 1]
           new == async_update(am, sigma[q], idx)
       IN  /\ sigma' = [sigma EXCEPT ![q] = new[1]]
           /\ frames' = [frames EXCEPT ![q] = Append(@, new[1])]
           /\ energies' = [energies EXCEPT ![q] = Append(@, new[2])]
    /\ UNCHANGED <<am, nsteps, sigma0, key, pc, bitflip_sequence, final_x,
                   probe, gd_vars, call>>

\* A local minimum of the energy: no flip of a single entry lowers it
\* strictly, so async_update keeps s whatever index is drawn.
LocalMinimum(self, s) ==
    \A idx \in 0..(Len(s) - 1) :
        energy(self, FlipBit(s, idx)) >= energy(self, s)

\* Mutant of AsyncRecallReturn: the recall also returns as soon as the state
\* is a local minimum.
AsyncRecallReturn_early(q) ==
    /\ pc[q] = "scan"
    /\ \/ Len(frames[q]) = Len(bitflip_sequence[q])
       \/ LocalMinimum(am, sigma[q])
    /\ final_x' = [final_x EXCEPT ![q] = sigma[q]]
    /\ pc' = [pc EXCEPT ![q] = "done"]
    /\ UNCHANGED <<am, nsteps, sigma0, key, bitflip_sequence, sigma, frames,
                   energies, probe, gd_vars, call>>

\* The return of async_recall, after lax.scan has consumed every index.
AsyncRecallReturn(q) ==
    /\ pc[q] = "scan"
    /\ Len(frames[q]) = Len(bitflip_sequence[q])
    /\ final_x' = [final_x EXCEPT ![q] = sigma[q]]
    /\ pc' = [pc EXCEPT ![q] = "done"]
    /\ UNCHANGED <<am, nsteps, sigma0, key, bitflip_sequence, sigma, frames,
                   energies, probe, gd_vars, call>>

\* The number of steps of a recall that is run without end.
Unbounded == "unbounded"

\* The start of a recall without end: the scan starts from sigma0; its
\* indices are drawn as it goes.
UnboundedRecallCall(q) ==
    /\ pc[q] = "call"
    /\ nsteps = Unbounded
    /\ sigma' = [sigma EXCEPT ![q] = sigma0[q]]
    /\ pc' = [pc EXCEPT ![q] = "scan"]
    /\ UNCHANGED <<am, nsteps, sigma0, key, bitflip_sequence, frames,
                   energies, final_x, probe, gd_vars, call>>

\* One iteration of the scan of a recall without end, idx the index drawn
\* for it: update_step on the carry.  Of bitflip_sequence only the entry of
\* this iteration is kept; the outputs of the scan are not kept.
UnboundedStep(q, idx) ==
    /\ pc[q] = "scan"
    /\ nsteps = Unbounded
    /\ bitflip_sequence' = [bitflip_sequence EXCEPT ![q] = <<idx>>]
    /\ sigma' = [sigma EXCEPT ![q] = async_update(am, sigma[q], idx)[1]]
    /\ UNCHANGED <<am, nsteps, sigma0, key, pc, frames, energies, final_x,
                   probe, gd_vars, call>>

\* The pure form of async_recall: lax.scan as a fold over the drawn indices.
\* <<final_x, frames, energies>>.
RECURSIVE Scan(_, _, _, _, _)
Scan(self, carry, xs, ys_frames, ys_energies) ==
    IF xs = <<>> THEN <<carry, ys_frames, ys_energies>>
    ELSE LET new == async_update(self, carry, Head(xs))
         IN  Scan(self, new[1], Tail(xs), Append(ys_frames, new[1]),
                  Append(ys_energies, new[2]))

async_recall(self, s0, nst, k) ==
    Scan(self, s0, Choice(k, Len(s0), nst), <<>>, <<>>)

\* jr.split(key, num): num child keys, a function of the parent key alone,
\* distinct for distinct children.
Split(k, num) == [i \in 1..num |-> k * num + (i - 1)]

\* One evaluation of the energy at a state and at its negation.
EnergyProbe ==
    /\ probe = <<>>
    /\ probe' = [sigma |-> sigma0[1],
                 e |-> energy(am, sigma0[1]),
                 e_neg |-> energy(am, Negate(sigma0[1]))]
    /\ UNCHANGED <<recall_vars, gd_vars, call>>

(***************************************************************************)
(* Gradient descent: energy_recall and ImageEnergyTransformer.__call__.    *)
(***************************************************************************)
\* jax.value_and_grad(et.energy)(xhat)[1]: the derivative of et_energy in
\* xhat, p the softmax weights of the masked logsumexp.
et_grad(et, xhat) ==
    LET K == Project(xhat, et.Wk)
        Q == Project(xhat, et.Wq)
        a == Scores(et, xhat)
        bmask == Bmask(et.config, Len(xhat))
        p == Array([h \in DOMAIN a |-> Array([q \in DOMAIN xhat |->
                LET w == LseWeights(a[h][q], bmask[q])
                IN  Array([k \in DOMAIN xhat |-> Div(w[k], SumSeq(w))])])])
        hid == Hid(et, xhat)
        attn(n, d) ==
            SumSeq([h \in DOMAIN a |->
                SumSeq([o \in DOMAIN xhat |->
                    Mul(p[h][o][n],
                        SumSeq([y \in DOMAIN K[n][h] |->
                            Mul(et.Wk[h][d][y], Q[o][h][y])]))
                    + Mul(p[h][n][o],
                          SumSeq([y \in DOMAIN K[n][h] |->
                              Mul(K[o][h][y], et.Wq[h][d][y])]))])])
        hn(n, d) == SumSeq([m \in DOMAIN et.Xi |-> Mul(hid[n][m], et.Xi[m][d])])
    IN  [n \in DOMAIN xhat |-> [d \in DOMAIN xhat[n] |-> -attn(n, d) - hn(n, d)]]

\* x - step_size * grad
Descend(xs, step_size, grad) ==
    [n \in DOMAIN xs |-> [d \in DOMAIN xs[n] |->
        xs[n][d] - Mul(step_size, grad[n][d])]]

\* The i-th draw of jr.normal(key, shape): a function of the key alone, in
\* quarters between -1 and 1.
Normal(k, i) == (((k * 7 + i * 13) % 9) - 4) * (Unit \div 4)

\* EnergyTransformer.rand_init(key, config); the scalings by the square
\* roots of Y and D are left to the draws.
rand_init(k, config) ==
    [config |-> config,
     Wq |-> [h \in 1..config.H |-> [d \in 1..config.D |-> [y \in 1..config.Y |->
               Normal(Split(k, 3)[1], (h * config.D + d) * config.Y + y)]]],
     Wk |-> [h \in 1..config.H |-> [d \in 1..config.D |-> [y \in 1..config.Y |->
               Normal(Split(k, 3)[2], (h * config.D + d) * config.Y + y)]]],
     Xi |-> [m \in 1..config.M |-> [d \in 1..config.D |->
               Normal(Split(k, 3)[3], m * config.D + d)]]]

\* ETConfig with two heads of two dimensions and two memories.
ETConfig(D, prevent_self_attention) ==
    [D |-> D, H |-> 2, Y |-> 2, M |-> 2, beta |-> <<>>,
     prevent_self_attention |-> prevent_self_attention]

\* EnergyLayerNorm(gamma=1., delta=jnp.zeros(D)): use_bias False, eps 1e-5.
EnergyLayerNorm(D) ==
    [gamma |-> Unit, delta |-> [d \in 1..D |-> 0], use_bias |-> FALSE,
     eps2 |-> (Unit * Unit) \div 10^5]

GdCall ==
    /\ gd_pc = "call"
    /\ gd_x' = IF gd_args.fn = "energy_recall"
            THEN lnorm_call(gd_model.lnorm, gd_args.x_init)   \* xhat_init
            ELSE gd_args.x_init
    /\ gd_pc' = "scan"
    /\ UNCHANGED <<recall_vars, probe, call, gd_args, gd_model, traj_outputs, gd_ret>>

\* Mutant of GdStep: the step is taken from the normalized tokens, which
\* become the carry.
GdStep_from_normalized ==
    /\ gd_pc = "scan"
    /\ Len(traj_outputs.energy) < gd_args.nsteps
    /\ LET xhat == lnorm_call(gd_model.lnorm, gd_x)
           E == et_energy(gd_model.et, xhat)
           dEdg == et_grad(gd_model.et, xhat)
       IN  /\ gd_x' = Descend(xhat, gd_args.step_size, dEdg)
           /\ traj_outputs' =
                 [energy |-> Append(traj_outputs.energy, E),
                  xhat |-> IF gd_args.fn = "energy_recall" THEN traj_outputs.xhat
                           ELSE Append(traj_outputs.xhat, xhat)]
    /\ UNCHANGED <<recall_vars, probe, call, gd_args, gd_model, gd_pc, gd_ret>>

\* One iteration of jax.lax.scan(gd_step, x, jnp.arange(nsteps)).
GdStep ==
    /\ gd_pc = "scan"
    /\ Len(traj_outputs.energy) < gd_args.nsteps
    /\ LET xhat == lnorm_call(gd_model.lnorm, gd_x)
           E == et_energy(gd_model.et, xhat)
           dEdg == et_grad(gd_model.et, xhat)
       IN  /\ gd_x' = Descend(gd_x, gd_args.step_size, dEdg)
           /\ traj_outputs' =
                 [energy |-> Append(traj_outputs.energy, E),
                  xhat |-> IF gd_args.fn = "energy_recall" THEN traj_outputs.xhat
                           ELSE Append(traj_outputs.xhat, xhat)]
    /\ UNCHANGED <<recall_vars, probe, call, gd_args, gd_model, gd_pc, gd_ret>>

\* energy_recall returns (final_x, energy_history).
EnergyRecallReturn ==
    /\ gd_pc = "scan"
    /\ gd_args.fn = "energy_recall"
    /\ Len(traj_outputs.energy) = gd_args.nsteps
    /\ gd_ret' = <<gd_x, traj_outputs.energy>>
    /\ gd_pc' = "done"
    /\ UNCHANGED <<recall_vars, probe, call, gd_args, gd_model, gd_x, traj_outputs>>

\* CallReturn without the evaluation on the final tokens.
CallReturn_no_final ==
    /\ gd_pc = "scan"
    /\ gd_args.fn = "__call__"
    /\ Len(traj_outputs.energy) = gd_args.nsteps
    /\ gd_ret' = <<Tail(lnorm_call(gd_model.lnorm, gd_x)), traj_outputs>>
    /\ gd_pc' = "done"
    /\ UNCHANGED <<recall_vars, probe, call, gd_args, gd_model, gd_x, traj_outputs>>

\* __call__ evaluates lnorm and the energy once more on the final tokens,
\* appends both and returns the final xhat without its CLS token (before the
\* decoding to an image) with the trajectory.
CallReturn ==
    /\ gd_pc = "scan"
    /\ gd_args.fn = "__call__"
    /\ Len(traj_outputs.energy) = gd_args.nsteps
    /\ LET xhat_final == lnorm_call(gd_model.lnorm, gd_x)
           E_final == et_energy(gd_model.et, xhat_final)
           traj == [energy |-> Append(traj_outputs.energy, E_final),
                    xhat |-> Append(traj_outputs.xhat, xhat_final)]
       IN  /\ traj_outputs' = traj
           /\ gd_ret' = <<Tail(xhat_final), traj>>
    /\ gd_pc' = "done"
    /\ UNCHANGED <<recall_vars, probe, call, gd_args, gd_model, gd_x>>

\* No gradient descent is under way.
GdIdle ==
    /\ gd_args = <<>>
    /\ gd_model = <<>>
    /\ gd_pc = "idle"
    /\ gd_x = <<>>
    /\ traj_outputs = <<>>
    /\ gd_ret = <<>>

(***************************************************************************)
(* Direct calls: constructors and the helpers of the notebooks.            *)
(***************************************************************************)
\* A call of fn on args that has not run yet.
Call(fn, args) ==
    [fn |-> fn, args |-> args, pc |-> "call", ret |-> None, raised |-> None]

\* No recall is under way.
RecallIdle ==
    /\ am = <<>>
    /\ nsteps = 0
    /\ sigma0 = <<>>
    /\ key = <<>>
    /\ pc = <<>>
    /\ bitflip_sequence = <<>>
    /\ sigma = <<>>
    /\ frames = <<>>
    /\ energies = <<>>
    /\ final_x = <<>>
    /\ probe = <<>>

\* The total input current to neuron idx: sum_mu xi^mu_i sum_{j != i}
\* xi^mu_j sigma_j (i = idx, 0-based).
InputCurrent(self, s, idx) ==
    SumSeq([mu \in DOMAIN self.Xi |->
        self.Xi[mu][idx + 1]
            * SumSeq([j \in DOMAIN s |->
                        IF j = idx + 1 THEN 0 ELSE self.Xi[mu][j] * s[j]])])

\* sgn(x) := 1 if x >= 0, -1 if x < 0
sgn(x) == IF x >= 0 THEN 1 ELSE -1

\* The sign update rule of the notebook: sigma_i <- sgn(total input current).
sign_update(self, s, idx) ==
    [s EXCEPT ![idx + 1] = sgn(InputCurrent(self, s, idx))]

\* One call am.async_update(sigma, idx).
AsyncUpdateCall ==
    /\ call # <<>>
    /\ call.fn = "async_update"
    /\ call.pc = "call"
    /\ call' = [call EXCEPT
          !.pc = "done",
          !.ret = async_update(call.args.self, call.args.sigma, call.args.idx)]
    /\ UNCHANGED <<recall_vars, probe, gd_vars>>

\* PolynomialDenseAM(Xi, n, rectified): the __init__ that eqx.Module
\* generates stores the fields; no statement of the class looks at n.
PolynomialDenseAM_init ==
    /\ call # <<>>
    /\ call.fn = "PolynomialDenseAM"
    /\ call.pc = "call"
    /\ am' = PolynomialDenseAM(call.args.Xi, call.args.n, call.args.rectified)
    /\ call' = [call EXCEPT !.pc = "constructed"]
    /\ UNCHANGED <<nsteps, sigma0, key, pc, bitflip_sequence, sigma, frames,
                   energies, final_x, probe, gd_vars>>

\* -jnp.sum(1 / n * sims ** n) for n < 0 as the fraction <<num, den>>, or
\* "inf" when a similarity is 0 (after the clip if rectified).
NegativeDegreeEnergy(self, s) ==
    LET sims == MatVec(self.Xi, s)
        clipped == [mu \in DOMAIN sims |->
                      IF self.rectified /\ sims[mu] < 0 THEN 0 ELSE sims[mu]]
        pows == [mu \in DOMAIN sims |-> Pow(clipped[mu], -self.n)]
        Others(mu) == [nu \in DOMAIN pows |-> IF nu = mu THEN 1 ELSE pows[nu]]
        RECURSIVE Prod(_)
        Prod(f) == IF f = <<>> THEN 1 ELSE Head(f) * Prod(Tail(f))
    IN  IF \E mu \in DOMAIN sims : clipped[mu] = 0 THEN "inf"
        ELSE <<SumSeq([mu \in DOMAIN pows |-> Prod(Others(mu))]),
               (-self.n) * Prod(pows)>>

\* The first self.energy(sigma) on the constructed object: 1 / self.n raises
\* ZeroDivisionError for n = 0 and is computed for every other n.
PolynomialDenseAM_first_energy ==
    /\ call # <<>>
    /\ call.fn = "PolynomialDenseAM"
    /\ call.pc = "constructed"
    /\ call' =
          IF am.n = 0
          THEN [call EXCEPT !.pc = "done", !.raised = "ZeroDivisionError"]
          ELSE IF am.n < 0
          THEN [call EXCEPT !.pc = "done",
                            !.ret = NegativeDegreeEnergy(am, call.args.sigma)]
          ELSE [call EXCEPT !.pc = "done",
                            !.ret = energy(am, call.args.sigma)]
    /\ UNCHANGED <<recall_vars, probe, gd_vars>>

(***************************************************************************)
(* Patcher: images (c, H, W) as sequences of channels of rows of pixels,   *)
(* a batch as a sequence of images.                                        *)
(***************************************************************************)
\* An array: its number of axes and its entries.
Array_(ndim, data) == [ndim |-> ndim, data |-> data]

\* The b-th entry of an array along its leading axis.
Sub(t, b) == Array_(t.ndim - 1, t.data[b])

\* Patcher.from_img_shape(img_shape, patch_size), img_shape = <<c, H, W>>.
Patcher_from_img_shape(img_shape, patch_size) ==
    LET height == img_shape[Len(img_shape) - 1]
        width == img_shape[Len(img_shape)]
    IN  IF (height % patch_size) # 0 \/ (width % patch_size) # 0
        THEN "AssertionError"
        ELSE [image_shape |-> img_shape, patch_size |-> patch_size,
              kh |-> height \div patch_size, kw |-> width \div patch_size]

\* rearrange(img, "... c (kh h) (kw w) -> ... (kh kw) c h w", h=ps, w=ps)
RECURSIVE patchify(_, _)
patchify(self, img) ==
    IF img.ndim > 3
    THEN Array_(img.ndim + 1,
                [b \in DOMAIN img.data |-> patchify(self, Sub(img, b)).data])
    ELSE LET h == self.patch_size
             w == self.patch_size
             kh == Len(img.data[1]) \div h
             kw == Len(img.data[1][1]) \div w
         IN  Array_(4, [p \in 1..(kh * kw) |-> [c \in DOMAIN img.data |->
                 [i \in 1..h |-> [j \in 1..w |->
                     img.data[c][((p - 1) \div kw) * h + i]
                             [((p - 1) % kw) * w + j]]]]])

\* Mutant of unpatchify: the patch axis is read as (kw kh).
RECURSIVE unpatchify_transposed(_, _)
unpatchify_transposed(self, patches) ==
    IF patches.ndim > 4
    THEN Array_(patches.ndim - 1,
                [b \in DOMAIN patches.data |->
                    unpatchify_transposed(self, Sub(patches, b)).data])
    ELSE LET d == patches.data
             h == Len(d[1][1])
             w == Len(d[1][1][1])
         IN  Array_(3, [c \in DOMAIN d[1] |->
                 [y \in 1..(self.kh * h) |-> [x \in 1..(self.kw * w) |->
                     d[((x - 1) \div w) * self.kh + ((y - 1) \div h) + 1]
                      [c][((y - 1) % h) + 1][((x - 1) % w) + 1]]]])

\* rearrange(patches, "... (kh kw) c h w -> ... c (kh h) (kw w)", kh, kw)
RECURSIVE unpatchify(_, _)
unpatchify(self, patches) ==
    IF patches.ndim > 4
    THEN Array_(patches.ndim - 1,
                [b \in DOMAIN patches.data |->
                    unpatchify(self, Sub(patches, b)).data])
    ELSE LET d == patches.data
             h == Len(d[1][1])
             w == Len(d[1][1][1])
         IN  Array_(3, [c \in DOMAIN d[1] |->
                 [y \in 1..(self.kh * h) |-> [x \in 1..(self.kw * w) |->
                     d[((y - 1) \div h) * self.kw + ((x - 1) \div w) + 1]
                      [c][((y - 1) % h) + 1][((x - 1) % w) + 1]]]])

\* rearrange(patches, "... c h w -> ... (c h w)")
RECURSIVE rasterize(_, _)
rasterize(self, patches) ==
    IF patches.ndim > 3
    THEN Array_(patches.ndim - 2,
                [b \in DOMAIN patches.data |->
                    rasterize(self, Sub(patches, b)).data])
    ELSE LET d == patches.data
             h == Len(d[1])
             w == Len(d[1][1])
         IN  Array_(1, [t \in 1..(Len(d) * h * w) |->
                 d[((t - 1) \div (h * w)) + 1]
                  [(((t - 1) \div w) % h) + 1][((t - 1) % w) + 1]])

\* rearrange(tokens, "... (c h w) -> ... c h w", c, h, w = self.patch_shape)
RECURSIVE unrasterize(_, _)
unrasterize(self, tokens) ==
    IF tokens.ndim > 1
    THEN Array_(tokens.ndim + 2,
                [b \in DOMAIN tokens.data |->
                    unrasterize(self, Sub(tokens, b)).data])
    ELSE LET h == self.patch_size
             w == self.patch_size
         IN  Array_(3, [c \in 1..self.image_shape[1] |->
                 [i \in 1..h |-> [j \in 1..w |->
                     tokens.data[((c - 1) * h + (i - 1)) * w + j]]]])

tokenify(self, img) == rasterize(self, patchify(self, img))

untokenify(self, tokens) == unpatchify(self, unrasterize(self, tokens))

\* The images of one shape the round trips are run on: every image with a
\* single pixel set, and the image whose pixels are all different.
Ramp(C, H, W) ==
    Array_(3, [c \in 1..C |-> [y \in 1..H |-> [x \in 1..W |->
        ((c - 1) * H + (y - 1)) * W + x]]])

OneHots(C, H, W) ==
    {Array_(3, [c \in 1..C |-> [y \in 1..H |-> [x \in 1..W |->
         IF <<c, y, x>> = at THEN 1 ELSE 0]]]) :
        at \in (1..C) \X (1..H) \X (1..W)}

Images(C, H, W) == OneHots(C, H, W) \cup {Ramp(C, H, W)}

\* jnp.stack([a, b])
Stack2(a, b) == Array_(a.ndim + 1, <<a.data, b.data>>)

\* The cells of the notebook that patchify and tokenify an image, or a batch
\* of images, and go back.
PatcherRoundTrip ==
    /\ call # <<>>
    /\ call.fn = "Patcher"
    /\ call.pc = "call"
    /\ LET patcher == Patcher_from_img_shape(call.args.img_shape,
                                             call.args.patch_size)
           imgs == call.args.imgs
       IN  call' = [call EXCEPT
               !.pc = "done",
               !.ret = [patched |-> patchify(patcher, imgs),
                        unpatchified |->
                            unpatchify(patcher, patchify(patcher, imgs)),
                        tokenified |-> tokenify(patcher, imgs),
                        untokenified |->
                            untokenify(patcher, tokenify(patcher, imgs))]]
    /\ UNCHANGED <<recall_vars, probe, gd_vars>>

(***************************************************************************)
(* ImageEnergyTransformer.corrupt_tokens.                                  *)
(***************************************************************************)
\* The default of corrupt_tokens' max_n_masked.
max_n_masked == 100

\* The 0-based positions of the true entries of cond, in order.
RECURSIVE TruePositions(_, _)
TruePositions(cond, i) ==
    IF i > Len(cond) THEN <<>>
    ELSE (IF cond[i] THEN <<i - 1>> ELSE <<>>) \o TruePositions(cond, i + 1)

\* jnp.nonzero(cond, size=size, fill_value=fill_value)[0]: the positions of
\* the true entries, cut to size entries or padded to size with fill_value.
nonzero(cond, size, fill_value) ==
    LET found == TruePositions(cond, 1)
    IN  [k \in 1..size |-> IF k <= Len(found) THEN found[k] ELSE fill_value]

\* x.at[idx].set(value): every row of x that idx names is value.
AtSet(xs, idx, value) ==
    [i \in DOMAIN xs |->
        IF \E k \in DOMAIN idx : idx[k] = i - 1 THEN value ELSE xs[i]]

corrupt_tokens(self, xs, mask, size) ==
    LET maskmask == nonzero([i \in DOMAIN mask |-> mask[i] = 1], size, 0)
    IN  AtSet(xs, maskmask, self.mask_token)

CorruptTokens ==
    /\ call # <<>>
    /\ call.fn = "corrupt_tokens"
    /\ call.pc = "call"
    /\ call' = [call EXCEPT
          !.pc = "done",
          !.ret = corrupt_tokens(call.args.self, call.args.x, call.args.mask,
                                 max_n_masked)]
    /\ UNCHANGED <<recall_vars, probe, gd_vars>>

(***************************************************************************)
(* get_cache_dir.  A path is the sequence of its components; the           *)
(* environment maps a variable's name to its value, None when unset.       *)
(***************************************************************************)
APP_NAME == "amtutorial"

\* The name f'{APP_NAME}_CACHE_DIR' evaluates to.
CacheDirVariable == "amtutorial_CACHE_DIR"

EnvNames == {"AMTUTORIAL_CACHE_DIR", "amtutorial_CACHE_DIR", "XDG_CACHE_HOME"}

\* The values given to a variable: unset, the empty string, a directory.
EnvValues == {None, "", "/data"}

\* Path(str): "" is the current directory.
Path(str) ==
    CASE str = "" -> <<".">>
      [] str = "/data" -> <<"/", "data">>
      [] str = "~/.cache" -> <<"~", ".cache">>

\* Path.expanduser(): a leading ~ becomes the home directory.
expanduser(path) ==
    IF path[1] = "~" THEN <<"/", "home">> \o Tail(path) ELSE path

\* The path and its parents.
Parents(path) == {SubSeq(path, 1, k) : k \in 1..Len(path)}

\* The body of get_cache_dir: <<base_path, the directories after mkdir>>.
get_cache_dir_body(env, subfolder, dirs) ==
    LET cache_dir == env[CacheDirVariable]
        xdg == IF env["XDG_CACHE_HOME"] = None THEN "~/.cache"
               ELSE env["XDG_CACHE_HOME"]
        base_path == IF cache_dir # None /\ cache_dir # ""
                     THEN Path(cache_dir)
                     ELSE Append(expanduser(Path(xdg)), APP_NAME)
        with_sub == IF subfolder # None /\ subfolder # ""
                    THEN Append(base_path, subfolder) ELSE base_path
    IN  <<with_sub, dirs \cup Parents(with_sub)>>

\* get_cache_dir(subfolder) under @ft.lru_cache(): a subfolder asked for
\* before returns what was returned then, without running the body.
GetCacheDir ==
    /\ call # <<>>
    /\ call.fn = "get_cache_dir"
    /\ call.pc = "call"
    /\ LET subfolder == call.args.subfolder
           hit == subfolder \in DOMAIN call.lru_cache
           out == get_cache_dir_body(call.env, subfolder, call.dirs)
       IN  call' = IF hit
                   THEN [call EXCEPT !.pc = "done",
                                     !.ret = call.lru_cache[subfolder]]
                   ELSE [call EXCEPT
                            !.pc = "done",
                            !.ret = out[1],
                            !.dirs = out[2],
                            !.lru_cache = [k \in DOMAIN @ \cup {subfolder} |->
                                IF k = subfolder THEN out[1] ELSE @[k]]]
    /\ UNCHANGED <<recall_vars, probe, gd_vars>>

\* The process sets its environment and calls get_cache_dir once more.
GetCacheDirAgain ==
    /\ call # <<>>
    /\ call.fn = "get_cache_dir"
    /\ call.pc = "done"
    /\ call.calls < CacheCalls
    /\ \E env \in [EnvNames -> EnvValues], subfolder \in {None, "sprites"} :
          call' = [call EXCEPT !.pc = "call", !.ret = None, !.env = env,
                               !.args = [subfolder |-> subfolder],
                               !.calls = @ + 1]
    /\ UNCHANGED <<recall_vars, probe, gd_vars>>

(***************************************************************************)
(* cached_recall.  The directory CACHE_DIR maps the cache names that have  *)
(* an .npz file to the contents of the file.                               *)
(***************************************************************************)
\* The arguments tried: memories of one pattern, the cache names of the
\* notebook, two queries, two keys, save or not, one step or two.
CachedRecallArgs ==
    [am : {CHN(<<<<1, 1>>>>), CHN(<<<<1, -1>>>>)},
     cache_name : {"basic_hopfield_recovery", "hopfield_recovery_inverted"},
     sigma_noisy : {<<1, -1>>, <<-1, -1>>},
     key : {0, 1},
     save : BOOLEAN,
     nsteps : {1, 2}]

\* jnp.savez(npz_fname, sigma_final=..., frames=..., energies=...): the
\* archive holds the three arrays under their keywords.
savez(sigma_final, frames_, energies_) ==
    [sigma_final |-> sigma_final, frames |-> frames_, energies |-> energies_]

\* Mutant of cached_recall: an existing file is loaded whatever CACHE_RECALL
\* is.
cached_recall_ignores_flag(a, files, CACHE_RECALL) ==
    IF a.cache_name \in DOMAIN files
    THEN LET npz_data == files[a.cache_name]
         IN  [ret |-> <<npz_data.sigma_final, npz_data.frames,
                        npz_data.energies>>,
              files |-> files,
              stdout |-> <<"Loading cached recall data">>]
    ELSE LET out == async_recall(a.am, a.sigma_noisy, a.nsteps, a.key)
         IN  [ret |-> <<out[1], out[2], out[3]>>,
              files |-> IF a.save
                        THEN [k \in DOMAIN files \cup {a.cache_name} |->
                                IF k = a.cache_name
                                THEN savez(out[1], out[2], out[3])
                                ELSE files[k]]
                        ELSE files,
              stdout |-> <<>>]

\* The body of cached_recall on the arguments a and the directory files:
\* what it returns, the directory afterwards and what it prints.
cached_recall(a, files, CACHE_RECALL) ==
    IF a.cache_name \in DOMAIN files /\ CACHE_RECALL
    THEN LET npz_data == files[a.cache_name]
         IN  [ret |-> <<npz_data.sigma_final, npz_data.frames,
                        npz_data.energies>>,
              files |-> files,
              stdout |-> <<"Loading cached recall data">>]
    ELSE LET out == async_recall(a.am, a.sigma_noisy, a.nsteps, a.key)
         IN  [ret |-> <<out[1], out[2], out[3]>>,
              files |-> IF a.save
                        THEN [k \in DOMAIN files \cup {a.cache_name} |->
                                IF k = a.cache_name
                                THEN savez(out[1], out[2], out[3])
                                ELSE files[k]]
                        ELSE files,
              stdout |-> <<>>]

\* cached_recall(am, cache_name, sigma_noisy, key, save, nsteps).
CachedRecall ==
    /\ call # <<>>
    /\ call.fn = "cached_recall"
    /\ call.pc = "call"
    /\ LET out == cached_recall(call.args, call.files, call.CACHE_RECALL)
       IN  call' = [call EXCEPT !.pc = "done", !.ret = out.ret,
                                !.files = out.files, !.stdout = out.stdout]
    /\ UNCHANGED <<recall_vars, probe, gd_vars>>

\* The notebook calls cached_recall once more.
CachedRecallAgain ==
    /\ call # <<>>
    /\ call.fn = "cached_recall"
    /\ call.pc = "done"
    /\ call.calls < CachedCalls
    /\ \E a \in CachedRecallArgs :
          call' = [call EXCEPT !.pc = "call", !.ret = <<>>, !.args = a,
                               !.stdout = <<>>, !.calls = @ + 1]
    /\ UNCHANGED <<recall_vars, probe, gd_vars>>

\* config.get_beta() on an ETConfig.
GetBeta ==
    /\ call # <<>>
    /\ call.fn = "ETConfig.get_beta"
    /\ call.pc = "call"
    /\ call' = [call EXCEPT !.pc = "done", !.ret = get_beta(call.args)]
    /\ UNCHANGED <<recall_vars, probe, gd_vars>>

(***************************************************************************)
(* datafy_pokemon_sprites and load_bipolar_pokemon_sprites.  A file name   *)
(* is <<stem, extension>>; the directory maps the names of its files to    *)
(* their contents (the gray levels of a sprite for an image file).         *)
(***************************************************************************)
\* The file names that may be in the directory, in the order of sorted().
FileNames ==
    <<<<"abra", ".PNG">>, <<"eevee", ".png">>, <<"pichu", ".png">>,
      <<"pokesprites_names", ".txt">>>>

\* The gray levels of Image.convert('L') used here, of 0..255.
GrayLevels == {0, 128, 255}

\* f.lower().endswith('.png')
IsPng(f) == f[2] \in {".png", ".PNG"}

\* sorted([f for f in os.listdir(input_dir) if f.lower().endswith('.png')])
RECURSIVE SortedPngs(_, _)
SortedPngs(dir, i) ==
    IF i > Len(FileNames) THEN <<>>
    ELSE (IF FileNames[i] \in DOMAIN dir /\ IsPng(FileNames[i])
          THEN <<FileNames[i]>> ELSE <<>>) \o SortedPngs(dir, i + 1)

\* '\n'.join(files): the text of the names file, piece by piece.
RECURSIVE JoinLines(_)
JoinLines(files) ==
    IF files = <<>> THEN <<>>
    ELSE IF Len(files) = 1 THEN Head(files)
    ELSE Head(files) \o <<"\n">> \o JoinLines(Tail(files))

\* open(path).readlines(): the text cut after each "\n".
RECURSIVE ReadLines(_, _)
ReadLines(text, line) ==
    IF text = <<>> THEN (IF line = <<>> THEN <<>> ELSE <<line>>)
    ELSE IF Head(text) = "\n"
         THEN <<Append(line, "\n")>> \o ReadLines(Tail(text), <<>>)
         ELSE ReadLines(Tail(text), Append(line, Head(text)))

\* n.strip().replace('.png', '')
StripName(line) ==
    SelectSeq(line, LAMBDA piece : piece \notin {"\n", ".png"})

\* datafy_pokemon_sprites: the saved pixels array and the names file.
datafy_pokemon_sprites(dir) ==
    LET files == SortedPngs(dir, 1)
    IN  [pixels |-> [i \in DOMAIN files |-> dir[files[i]]],
         names |-> JoinLines(files)]

\* Mutant of Bipolarize: the comparison with 0 is left out.
Bipolarize_unthresholded(pixel) == pixel * 2 - 1

\* (poke_pixels > 0).astype(np.float32) * 2 - 1, on one pixel.
Bipolarize(pixel) == (IF pixel > 0 THEN 1 ELSE 0) * 2 - 1

load_bipolar_pokemon_sprites(dir) ==
    LET saved == datafy_pokemon_sprites(dir)
        lines == ReadLines(saved.names, <<>>)
    IN  [poke_pixels |-> [i \in DOMAIN saved.pixels |->
                            [k \in DOMAIN saved.pixels[i] |->
                                Bipolarize(saved.pixels[i][k])]],
         poke_names |-> [i \in DOMAIN lines |-> StripName(lines[i])]]

LoadSprites ==
    /\ call # <<>>
    /\ call.fn = "load_bipolar_pokemon_sprites"
    /\ call.pc = "call"
    /\ call' = [call EXCEPT
          !.pc = "done",
          !.ret = load_bipolar_pokemon_sprites(call.args.dir)]
    /\ UNCHANGED <<recall_vars, probe, gd_vars>>

\* The state before any call: the arguments are chosen, nothing has run.
InitArgs(queries, ams, nstepss, sigma0s, keys) ==
    /\ am \in ams
    /\ nsteps \in nstepss
    /\ sigma0 \in sigma0s
    /\ key \in keys
    /\ pc = [q \in queries |-> "call"]
    /\ bitflip_sequence = [q \in queries |-> <<>>]
    /\ sigma = [q \in queries |-> <<>>]
    /\ frames = [q \in queries |-> <<>>]
    /\ energies = [q \in queries |-> <<>>]
    /\ final_x = [q \in queries |-> <<>>]
    /\ probe = <<>>
    /\ GdIdle
    /\ call = <<>>

\* One async_recall call on a noisy query.
Init ==
    InitArgs({1}, AMs(SortedMatrices(Dim, MaxK)), 0..MaxSteps,
             [{1} -> NoisyQueries(Dim)], [{1} -> Keys(Dim, MaxSteps)])
    /\ key[1] \in Keys(Dim, nsteps)

\* One async_recall call on a stored pattern (zero noise).
InitStored ==
    InitArgs({1}, AMs(SortedMatrices(StoredDim, StoredMaxK)), 0..StoredSteps,
             [{1} -> Patterns(StoredDim)], [{1} -> Keys(StoredDim, StoredSteps)])
    /\ key[1] \in Keys(StoredDim, nsteps)
    /\ sigma0[1] \in Rows(am.Xi)

\* Two async_recall calls with the same arguments, one after the other.
InitTwice ==
    /\ am \in AMs(Matrices(TwiceDim, TwiceMaxK))
    /\ nsteps \in 0..TwiceSteps
    /\ \E s \in NoisyQueries(TwiceDim) : sigma0 = [q \in {1, 2} |-> s]
    /\ \E k \in Keys(TwiceDim, nsteps) : key = [q \in {1, 2} |-> k]
    /\ pc = <<"call", "idle">>
    /\ bitflip_sequence = <<<<>>, <<>>>>
    /\ sigma = <<<<>>, <<>>>>
    /\ frames = <<<<>>, <<>>>>
    /\ energies = <<<<>>, <<>>>>
    /\ final_x = <<<<>>, <<>>>>
    /\ probe = <<>>
    /\ GdIdle
    /\ call = <<>>

\* The second call is made when the first has returned.
SecondCall ==
    /\ pc[1] = "done"
    /\ pc[2] = "idle"
    /\ pc' = [pc EXCEPT ![2] = "call"]
    /\ UNCHANGED <<am, nsteps, sigma0, key, bitflip_sequence, sigma, frames,
                   energies, final_x, probe, gd_vars, call>>

\* The batched recall: jax.vmap of the recall over the queries and over the
\* keys split from one parent key, with edam = ExponentialDenseAM(Xi, beta)
\* of one beta (the largest of Betas here).
InitBatch ==
    InitArgs({1, 2},
             {ExponentialDenseAM(Xi, 2) :
                 Xi \in SortedMatrices(BatchDim, BatchMaxK)},
             0..BatchSteps,
             [{1, 2} -> NoisyQueries(BatchDim)],
             {Split(k, 2) : k \in 0..(BatchKeys - 1)})

\* One energy evaluation.
InitEnergy ==
    InitArgs({1}, AMs(Matrices(EnergyDim, EnergyMaxK)), {0},
             [{1} -> Patterns(EnergyDim)], {[q \in {1} |-> 0]})

\* One gradient descent on tokens of -1 and +1, with the step sizes of the
\* notebook (0.1 and 0.5) and the weights of rand_init(jr.PRNGKey(11), .).
InitGd ==
    /\ am = <<>>
    /\ nsteps = 0
    /\ sigma0 = <<>>
    /\ key = <<>>
    /\ pc = <<>>
    /\ bitflip_sequence = <<>>
    /\ sigma = <<>>
    /\ frames = <<>>
    /\ energies = <<>>
    /\ final_x = <<>>
    /\ probe = <<>>
    /\ call = <<>>
    /\ gd_args \in [fn : {"energy_recall", "__call__"},
                    x_init : [1..GdTokens -> [1..GdDim -> {-Unit, Unit}]],
                    nsteps : 0..GdSteps,
                    step_size : {Unit \div 10, Unit \div 2}]
    /\ \E psa \in BOOLEAN :
          gd_model = [et |-> rand_init(11, ETConfig(GdDim, psa)),
                      lnorm |-> EnergyLayerNorm(GdDim)]
    /\ gd_pc = "call"
    /\ gd_x = <<>>
    /\ traj_outputs = [energy |-> <<>>, xhat |-> <<>>]
    /\ gd_ret = <<>>

\* One recall without end, for every energy function, on the sorted memory
\* matrices that store the pattern of all +1.  An energy depends on Xi and
\* sigma through the overlaps Xi @ sigma only, and these do not change when
\* one coordinate is negated in every stored pattern and in sigma: each
\* memory matrix behaves as one that stores the pattern of all +1.
InitFair ==
    InitArgs({1},
             AMs({Xi \in SortedMatrices(FairDim, FairMaxK) :
                    \E mu \in DOMAIN Xi : Xi[mu] = [i \in 1..FairDim |-> 1]}),
             {Unbounded}, [{1} -> Patterns(FairDim)], {[q \in {1} |-> 0]})

\* One recall without end under the quadratic energy with a single stored
\* pattern.
InitInverted ==
    InitArgs({1}, {CHN(Xi) : Xi \in Matrices(InvDim, 1)}, {Unbounded},
             [{1} -> Patterns(InvDim)], {[q \in {1} |-> 0]})

\* edam = ExponentialDenseAM(Xi, beta=50.)
NotebookBeta == 50

\* One async_recall under the exponential energy with three stored patterns,
\* the first of them all +1, at the default beta and at the notebook's.
InitLse ==
    InitArgs({1},
             {ExponentialDenseAM(<<[i \in 1..LseDim |-> 1], a, b>>, beta) :
                 a \in Patterns(LseDim), b \in Patterns(LseDim),
                 beta \in {1, NotebookBeta}},
             0..LseSteps,
             [{1} -> Patterns(LseDim)], [{1} -> Keys(LseDim, LseSteps)])
    /\ Code(am.Xi[2]) <= Code(am.Xi[3])
    /\ key[1] \in Keys(LseDim, nsteps)

\* One async_update on any state and index, for every energy function.
InitUpdate ==
    /\ RecallIdle
    /\ GdIdle
    /\ \E self \in AMs(SortedMatrices(UpdDim, UpdMaxK)) :
       \E s \in Patterns(UpdDim) :
       \E idx \in 0..(UpdDim - 1) :
          call = Call("async_update", [self |-> self, sigma |-> s, idx |-> idx])

\* One construction of a PolynomialDenseAM, of any integer degree, and its
\* first energy evaluation.
InitConstruct ==
    /\ RecallIdle
    /\ GdIdle
    /\ \E args \in [Xi : Matrices(CtorDim, CtorMaxK),
                     n : (-CtorMaxN)..CtorMaxN,
                     rectified : BOOLEAN,
                     sigma : Patterns(CtorDim)] :
          call = Call("PolynomialDenseAM", args)

\* One gradient descent as InitGd at the step size 0.5 of the notebook, on
\* tokens of -0.1 and +0.1: the tokens entering the scan of __call__ are not
\* layer normalized.
InitDescent ==
    /\ RecallIdle
    /\ call = <<>>
    /\ gd_args \in [fn : {"energy_recall", "__call__"},
                    x_init : [1..GdTokens -> [1..GdDim ->
                                 {-(Unit \div 10), Unit \div 10}]],
                    nsteps : 0..DescentSteps,
                    step_size : {Unit \div 2}]
    /\ \E psa \in BOOLEAN :
          gd_model = [et |-> rand_init(11, ETConfig(GdDim, psa)),
                      lnorm |-> EnergyLayerNorm(GdDim)]
    /\ gd_pc = "call"
    /\ gd_x = <<>>
    /\ traj_outputs = [energy |-> <<>>, xhat |-> <<>>]
    /\ gd_ret = <<>>

\* One gradient descent of GdSteps steps at the step size 0.1 that __call__
\* takes by default.
InitStep ==
    /\ RecallIdle
    /\ call = <<>>
    /\ gd_args \in [fn : {"energy_recall", "__call__"},
                    x_init : [1..GdTokens -> [1..GdDim -> {-Unit, Unit}]],
                    nsteps : {GdSteps},
                    step_size : {Unit \div 10}]
    /\ \E psa \in BOOLEAN :
          gd_model = [et |-> rand_init(11, ETConfig(GdDim, psa)),
                      lnorm |-> EnergyLayerNorm(GdDim)]
    /\ gd_pc = "call"
    /\ gd_x = <<>>
    /\ traj_outputs = [energy |-> <<>>, xhat |-> <<>>]
    /\ gd_ret = <<>>

\* One get_beta on an ETConfig made with beta left out or given, 0 included.
InitBeta ==
    /\ RecallIdle
    /\ GdIdle
    /\ \E Y \in 1..BetaMaxY :
       \E beta \in {<<>>} \cup {<<(e * Unit) \div 8>> : e \in 0..BetaMaxEighths} :
          call = Call("ETConfig.get_beta",
                      [ETConfig(2, TRUE) EXCEPT !.Y = Y, !.beta = beta])

\* One async_recall call on a query of any length from 1 to D + 1.
InitShape ==
    /\ \E d \in 1..(ShapeDim + 1) :
          InitArgs({1}, AMs(SortedMatrices(ShapeDim, ShapeMaxK)), 0..ShapeSteps,
                   [{1} -> Patterns(d)], [{1} -> Keys(d, ShapeSteps)])
    /\ key[1] \in Keys(Len(sigma0[1]), nsteps)

\* One round trip of one image, or of a batch of two, through a Patcher made
\* from the shape of the image, the sides being multiples of the patch size.
InitPatcher ==
    /\ RecallIdle
    /\ GdIdle
    /\ \E ps \in 1..PatchMaxSide, C \in 1..PatchMaxC :
       \E H \in {z \in 1..PatchMaxSide : z % ps = 0} :
       \E W \in {z \in 1..PatchMaxSide : z % ps = 0} :
       \E img \in Images(C, H, W) :
       \E batch \in {"single", "first", "second"} :
          call = Call("Patcher",
                      [img_shape |-> <<C, H, W>>, patch_size |-> ps,
                       imgs |-> CASE batch = "single" -> img
                                  [] batch = "first" ->
                                        Stack2(img, Ramp(C, H, W))
                                  [] batch = "second" ->
                                        Stack2(Ramp(C, H, W), img)])

\* One corrupt_tokens call on up to TokMaxN tokens, none of them the MASK
\* token, under a mask of entries 0, 1 and 2.
InitCorrupt ==
    /\ RecallIdle
    /\ GdIdle
    /\ \E N \in 1..TokMaxN :
       \E xs \in [1..N -> {<<1>>, <<2>>}], mask \in [1..N -> {0, 1, 2}] :
          call = Call("corrupt_tokens",
                      [self |-> [mask_token |-> <<0>>], x |-> xs, mask |-> mask])

\* The first get_cache_dir call of a process: nothing cached, no directory
\* made yet.
InitCache ==
    /\ RecallIdle
    /\ GdIdle
    /\ \E env \in [EnvNames -> EnvValues], subfolder \in {None, "sprites"} :
          call = [fn |-> "get_cache_dir", args |-> [subfolder |-> subfolder],
                  pc |-> "call", ret |-> None, raised |-> None,
                  env |-> env, dirs |-> {}, lru_cache |-> <<>>, calls |-> 1]

\* The first cached_recall of a session: CACHE_DIR has just been made and
\* holds no file; CACHE_RECALL is set to True or to False.
InitCached ==
    /\ RecallIdle
    /\ GdIdle
    /\ \E a \in CachedRecallArgs, flag \in BOOLEAN :
          call = [fn |-> "cached_recall", args |-> a, pc |-> "call",
                  ret |-> <<>>, raised |-> None, files |-> <<>>,
                  CACHE_RECALL |-> flag, stdout |-> <<>>, calls |-> 1]

\* One load of a directory holding any of the files, each image file a
\* sprite of SpritePixels gray levels.
InitSprites ==
    /\ RecallIdle
    /\ GdIdle
    /\ \E present \in SUBSET {FileNames[i] : i \in DOMAIN FileNames} :
       \E dir \in [present -> [1..SpritePixels -> GrayLevels] \cup {<<>>}] :
          /\ \A f \in present : IsPng(f) <=> dir[f] # <<>>
          /\ call = Call("load_bipolar_pokemon_sprites", [dir |-> dir])

Next ==
    \E q \in Queries :
        \/ AsyncRecallCall(q)
        \/ UpdateStep(q)
        \/ AsyncRecallReturn(q)

NextTwice == Next \/ SecondCall

NextEnergy == EnergyProbe

NextGd == GdCall \/ GdStep \/ EnergyRecallReturn \/ CallReturn

NextPatcher == PatcherRoundTrip

NextCorrupt == CorruptTokens

NextCache == GetCacheDir \/ GetCacheDirAgain

NextBeta == GetBeta

NextCached == CachedRecall \/ CachedRecallAgain

NextUpdate == AsyncUpdateCall

\* The indices are drawn from np.arange(D), D = sigma0.shape[-1].
NextFair ==
    \E q \in Queries :
        \/ UnboundedRecallCall(q)
        \/ \E idx \in 0..(Len(sigma0[q]) - 1) : UnboundedStep(q, idx)

NextSprites == LoadSprites

NextConstruct == PolynomialDenseAM_init \/ PolynomialDenseAM_first_energy

Spec == Init /\ [][Next]_vars

SpecStored == InitStored /\ [][Next]_vars

SpecTwice == InitTwice /\ [][NextTwice]_vars

SpecBatch == InitBatch /\ [][Next]_vars

SpecEnergy == InitEnergy /\ [][NextEnergy]_vars

SpecGd == InitGd /\ [][NextGd]_vars

SpecShape == InitShape /\ [][Next]_vars

SpecPatcher == InitPatcher /\ [][NextPatcher]_vars

SpecCorrupt == InitCorrupt /\ [][NextCorrupt]_vars

SpecCache == InitCache /\ [][NextCache]_vars

SpecDescent == InitDescent /\ [][NextGd]_vars

SpecStep == InitStep /\ [][NextGd]_vars

SpecBeta == InitBeta /\ [][NextBeta]_vars

SpecCached == InitCached /\ [][NextCached]_vars

SpecUpdate == InitUpdate /\ [][NextUpdate]_vars

SpecLse == InitLse /\ [][Next]_vars

\* The call is made, and jr.choice draws every index with the same
\* probability at every step: with probability 1 every index is drawn again
\* and again.
SpecFair ==
    /\ InitFair
    /\ [][NextFair]_vars
    /\ \A q \in {1} : WF_vars(UnboundedRecallCall(q))
    /\ \A idx \in 0..(FairDim - 1) : []<>(bitflip_sequence[1] = <<idx>>)

SpecInverted ==
    /\ InitInverted
    /\ [][NextFair]_vars
    /\ \A q \in {1} : WF_vars(UnboundedRecallCall(q))
    /\ \A idx \in 0..(InvDim - 1) : []<>(bitflip_sequence[1] = <<idx>>)

SpecSprites == InitSprites /\ [][NextSprites]_vars

SpecConstruct == InitConstruct /\ [][NextConstruct]_vars

(***************************************************************************)
(* The claims.                                                             *)
(***************************************************************************)
Last(s) == s[Len(s)]

\* The index drawn for step t of query q, and the state the step starts from.
DrawnIdx(q, t) == bitflip_sequence[q][t]

StateBefore(q, t) == IF t = 1 THEN sigma0[q] ELSE frames[q][t - 1]

\* C1: the energies async_recall returns never increase from one step to the
\* next, and the first one is at most the energy of the initial query.
C1_EnergiesNonIncreasing ==
    \A q \in Queries :
        /\ \A t \in 1..(Len(energies[q]) - 1) :
              energies[q][t + 1] <= energies[q][t]
        /\ Len(energies[q]) >= 1 => energies[q][1] <= energy(am, sigma0[q])

\* Two steps in a row each lowered the energy.
C1_Witness ==
    \E q \in Queries :
        /\ Len(energies[q]) = 2
        /\ energies[q][2] < energies[q][1]
        /\ energies[q][1] < energy(am, sigma0[q])

\* C2: a step keeps the flipped state exactly when its energy is strictly
\* lower; on a tie or a higher energy it keeps the unflipped state and that
\* state's energy.
C2_FlipKeptIffStrictlyLower ==
    [][\A q \in Queries :
          Len(frames'[q]) = Len(frames[q]) + 1 =>
              LET flipped == FlipBit(sigma[q], DrawnIdx(q, Len(frames[q]) + 1))
                  e_og == energy(am, sigma[q])
                  e_flipped == energy(am, flipped)
              IN  /\ e_flipped < e_og =>
                        /\ sigma'[q] = flipped
                        /\ Last(frames'[q]) = flipped
                        /\ Last(energies'[q]) = e_flipped
                  /\ e_flipped >= e_og =>
                        /\ sigma'[q] = sigma[q]
                        /\ Last(frames'[q]) = sigma[q]
                        /\ Last(energies'[q]) = e_og]_vars

\* A tie was met and the unflipped state kept, then a flip was kept.
C2_Witness ==
    \E q \in Queries :
        /\ Len(frames[q]) = 2
        /\ energy(am, FlipBit(sigma0[q], DrawnIdx(q, 1))) = energy(am, sigma0[q])
        /\ frames[q][1] = sigma0[q]
        /\ frames[q][2] # frames[q][1]

\* C3: with a bipolar initial query, the carried state, every recorded state
\* and the returned state are bipolar vectors of the query's length.
C3_StatesStayBipolar ==
    \A q \in Queries :
        IsBipolar(sigma0[q]) =>
            /\ pc[q] \in {"scan", "done"} =>
                  sigma[q] \in Patterns(Len(sigma0[q]))
            /\ \A t \in DOMAIN frames[q] :
                  frames[q][t] \in Patterns(Len(sigma0[q]))
            /\ pc[q] = "done" => final_x[q] \in Patterns(Len(sigma0[q]))

\* A recall that kept two flips has returned.
C3_Witness ==
    \E q \in Queries :
        /\ pc[q] = "done"
        /\ Len(frames[q]) = 2
        /\ frames[q][1] # sigma0[q]
        /\ frames[q][2] # frames[q][1]

\* C4: async_recall makes exactly nsteps update steps and returns nsteps
\* states and nsteps energies; entry 1 is the state after the first update,
\* the initial query is no entry of its own.
C4_TrajectoryHasNstepsEntries ==
    \A q \in Queries :
        /\ Len(frames[q]) <= nsteps
        /\ Len(energies[q]) = Len(frames[q])
        /\ pc[q] = "done" =>
              /\ Len(frames[q]) = nsteps
              /\ Len(energies[q]) = nsteps
              /\ nsteps >= 1 =>
                    /\ frames[q][1] =
                          async_update(am, sigma0[q], DrawnIdx(q, 1))[1]
                    /\ energies[q][1] =
                          async_update(am, sigma0[q], DrawnIdx(q, 1))[2]

\* A recall of two steps has returned, its first entry not the initial query.
C4_Witness ==
    \E q \in Queries :
        /\ pc[q] = "done"
        /\ nsteps = 2
        /\ frames[q][1] # sigma0[q]

\* The energies of the trajectory a finished gradient descent returned:
\* energy_recall returns them bare, __call__ in a record beside the xhat.
ReturnedEnergies ==
    IF gd_args.fn = "energy_recall" THEN gd_ret[2] ELSE gd_ret[2].energy

\* C5 (as stated): every continuous recall of nsteps iterations returns a
\* trajectory of exactly nsteps + 1 entries.
C5_TrajectoryHasNstepsPlusOneEntries ==
    gd_pc = "done" => Len(ReturnedEnergies) = gd_args.nsteps + 1

\* C5 (amended): ImageEnergyTransformer.__call__ returns nsteps + 1
\* normalized states and nsteps + 1 energies, the last of each being the
\* normalization and the energy of the final tokens; energy_recall returns
\* exactly nsteps energies and no states.
C5_CallHasNstepsPlusOneEntries ==
    gd_pc = "done" =>
        IF gd_args.fn = "__call__"
        THEN /\ Len(gd_ret[2].energy) = gd_args.nsteps + 1
             /\ Len(gd_ret[2].xhat) = gd_args.nsteps + 1
             /\ Last(gd_ret[2].xhat) = lnorm_call(gd_model.lnorm, gd_x)
             /\ Last(gd_ret[2].energy) =
                    et_energy(gd_model.et, lnorm_call(gd_model.lnorm, gd_x))
        ELSE Len(gd_ret[2]) = gd_args.nsteps

\* A __call__ of at least one gradient step has returned.
C5_Witness ==
    /\ gd_pc = "done"
    /\ gd_args.fn = "__call__"
    /\ gd_args.nsteps >= 1
    /\ Len(gd_ret[2].energy) = gd_args.nsteps + 1

\* The recall of query q has, so far, left the query's state and energy as
\* they were.
Unmoved(q) ==
    /\ \A t \in DOMAIN frames[q] : frames[q][t] = sigma0[q]
    /\ \A t \in DOMAIN energies[q] : energies[q][t] = energy(am, sigma0[q])
    /\ pc[q] = "done" => final_x[q] = sigma0[q]

\* C6, as claimed: recalled from a stored row, every recorded state is that
\* row and every recorded energy its energy, for every memory matrix.
C6_StoredRowIsFixedPoint ==
    \A q \in Queries : sigma0[q] \in Rows(am.Xi) => Unmoved(q)

\* C6, amended: the same for the memory matrices of at most two rows.
C6_StoredRowIsFixedPointUpToTwoRows ==
    \A q \in Queries :
        (Len(am.Xi) <= 2 /\ sigma0[q] \in Rows(am.Xi)) => Unmoved(q)

\* A recall from one of two distinct stored rows has returned after a step
\* whose flip would have tied.
C6_Witness ==
    \E q \in Queries :
        /\ pc[q] = "done"
        /\ nsteps >= 1
        /\ Len(am.Xi) = 2
        /\ am.Xi[1] # am.Xi[2]
        /\ sigma0[q] \in Rows(am.Xi)
        /\ energy(am, FlipBit(sigma0[q], DrawnIdx(q, 1))) = energy(am, sigma0[q])

\* C7: the quadratic energy of a state equals that of its negation.
C7_CHNSignSymmetric ==
    (probe # <<>> /\ am.cls = "CHN") => probe.e = probe.e_neg

\* The CHN energy was evaluated at a state that overlaps a stored pattern.
C7_Witness ==
    /\ probe # <<>>
    /\ am.cls = "CHN"
    /\ Len(am.Xi) = 2
    /\ probe.e < 0

Asymmetric(self) ==
    \/ self.cls = "PolynomialDenseAM" /\ self.rectified
    \/ self.cls = "ExponentialDenseAM"

NoRowNegated(Xi) == \A mu \in DOMAIN Xi : Negate(Xi[mu]) \notin Rows(Xi)

C10_BatchedEqualsIsolated ==
    \A q \in Queries :
        LET alone == async_recall(am, sigma0[q], nsteps, key[q])
            done == Len(frames[q])
        IN  /\ frames[q] = SubSeq(alone[2], 1, done)
            /\ energies[q] = SubSeq(alone[3], 1, done)
            /\ pc[q] = "done" =>
                  <<final_x[q], frames[q], energies[q]>> = alone

\* Both queries of a batch have returned, with different results, the
\* second one having moved.
C10_Witness ==
    /\ pc[1] = "done"
    /\ pc[2] = "done"
    /\ nsteps >= 1
    /\ sigma0[1] # sigma0[2]
    /\ bitflip_sequence[1] # bitflip_sequence[2]
    /\ final_x[2] # sigma0[2]
    /\ final_x[1] # final_x[2]

\* C11: no step of a recall changes the energy function (Xi, n, rectified,
\* beta) or the caller's initial query sigma0.
C11_ParametersAndQueryUnchanged ==
    [][am' = am /\ sigma0' = sigma0]_vars

\* A recall has returned a state other than the query it was given.
C11_Witness ==
    \E q \in Queries :
        /\ pc[q] = "done"
        /\ IsBipolar(sigma0[q])
        /\ final_x[q] # sigma0[q]
        /\ Last(frames[q]) = final_x[q]

Rectified(self) == self.cls = "PolynomialDenseAM" /\ self.rectified

\* The stored rows whose negation is not stored.
UninvertedRows(Xi) == {xi \in Rows(Xi) : Negate(xi) \notin Rows(Xi)}

C13_NonPositiveDegreeRejected ==
    (/\ call # <<>>
     /\ call.fn = "PolynomialDenseAM"
     /\ call.args.n <= 0
     /\ call.pc # "call") => (am = <<>> /\ call.raised # None)

\* C14: a recall on a query whose length is not the column count of Xi
\* raises before any update step: nothing is drawn, carried, recorded or
\* returned.
C14_ShapeMismatchRaisesBeforeAnyStep ==
    \A q \in Queries :
        ~MatMulDefined(am.Xi, sigma0[q]) =>
            /\ pc[q] \in {"call", "TypeError"}
            /\ bitflip_sequence[q] = <<>>
            /\ sigma[q] = <<>>
            /\ frames[q] = <<>>
            /\ energies[q] = <<>>
            /\ final_x[q] = <<>>

\* A recall of at least one step on a query longer than the rows of Xi has
\* raised.
C14_Witness ==
    \E q \in Queries :
        /\ pc[q] = "TypeError"
        /\ nsteps >= 1
        /\ Len(sigma0[q]) > Len(am.Xi[1])

\* C15: unpatchify(patchify(img)) and untokenify(tokenify(img)) are img,
\* element for element, for a single image and for a batch.
C15_PatcherRoundTrips ==
    (call # <<>> /\ call.fn = "Patcher" /\ call.pc = "done") =>
        /\ call.ret.unpatchified = call.args.imgs
        /\ call.ret.untokenified = call.args.imgs

\* A batch of images of two channels and four patches went round, its
\* patches not the image and its tokens not the patches.
C15_Witness ==
    /\ call # <<>>
    /\ call.fn = "Patcher"
    /\ call.pc = "done"
    /\ call.args.imgs.ndim = 4
    /\ call.args.img_shape = <<2, 2, 2>>
    /\ call.args.patch_size = 1
    /\ call.ret.patched # call.args.imgs
    /\ call.ret.tokenified # call.ret.patched

\* C16: corrupt_tokens returns the MASK token exactly at the positions where
\* mask is 1 and the given token at every other position.
C16_ExactlyTheMaskedTokensReplaced ==
    (call # <<>> /\ call.fn = "corrupt_tokens" /\ call.pc = "done") =>
        \A i \in DOMAIN call.args.x :
            call.ret[i] = IF call.args.mask[i] = 1
                          THEN call.args.self.mask_token
                          ELSE call.args.x[i]

\* The directory C17 describes for an environment and a subfolder.
DocumentedCacheDir(env, subfolder) ==
    LET set == env["AMTUTORIAL_CACHE_DIR"] \notin {None, ""}
        xdg == IF env["XDG_CACHE_HOME"] = None THEN "~/.cache"
               ELSE env["XDG_CACHE_HOME"]
        base == IF set THEN Path(env["AMTUTORIAL_CACHE_DIR"])
                ELSE Append(expanduser(Path(xdg)), "amtutorial")
    IN  IF subfolder = None THEN base ELSE Append(base, subfolder)

\* C17: get_cache_dir returns the directory of AMTUTORIAL_CACHE_DIR when it
\* is set and <XDG_CACHE_HOME or ~/.cache>/amtutorial otherwise, with the
\* subfolder appended, and the directory exists.
C17_CacheDirFollowsEnvironment ==
    (call # <<>> /\ call.fn = "get_cache_dir" /\ call.pc = "done") =>
        /\ call.ret = DocumentedCacheDir(call.env, call.args.subfolder)
        /\ call.ret \in call.dirs

\* C18: every returned pixel is -1 or +1, +1 exactly where the stored pixel
\* is above 0; there are as many names as images, and the i-th name is the
\* name of the file of the i-th image.
C18_SpritesBipolarAndAligned ==
    (call # <<>> /\ call.fn = "load_bipolar_pokemon_sprites"
        /\ call.pc = "done") =>
        LET files == SortedPngs(call.args.dir, 1)
            ret == call.ret
        IN  /\ Len(ret.poke_names) = Len(ret.poke_pixels)
            /\ Len(ret.poke_pixels) = Len(files)
            /\ \A i \in DOMAIN files :
                  /\ ret.poke_names[i][1] = files[i][1]
                  /\ \A k \in 1..SpritePixels :
                        /\ ret.poke_pixels[i][k] \in {-1, 1}
                        /\ ret.poke_pixels[i][k] = 1 <=>
                              call.args.dir[files[i]][k] > 0

\* Three sprites were loaded beside a file that is no image, the first with
\* a gray pixel and a black one.
C18_Witness ==
    /\ call # <<>>
    /\ call.fn = "load_bipolar_pokemon_sprites"
    /\ call.pc = "done"
    /\ Len(call.ret.poke_names) = 3
    /\ Cardinality(DOMAIN call.args.dir) = 4
    /\ call.ret.poke_pixels[1][1] = 1
    /\ call.args.dir[FileNames[1]][1] = 128
    /\ call.ret.poke_pixels[1][2] = -1

\* The rounding of the fixed-point energies stays well below this.
EnergyTol == Unit \div 20

\* C19: along a gradient descent no recorded energy is above the one
\* recorded a step before (up to the rounding of the fixed-point numbers).
C19_EnergyNeverIncreases ==
    traj_outputs # <<>> =>
        \A i \in 1..(Len(traj_outputs.energy) - 1) :
            traj_outputs.energy[i + 1] <= traj_outputs.energy[i] + EnergyTol

\* C20: get_beta returns the beta the configuration was made with whenever
\* one was given, and 1/sqrt(Y) when beta is None.
C20_SuppliedBetaIsReturned ==
    (call # <<>> /\ call.fn = "ETConfig.get_beta" /\ call.pc = "done") =>
        call.ret = IF call.args.beta = <<>>
                   THEN (Unit * Unit) \div ISqrt(call.args.Y * Unit * Unit)
                   ELSE call.args.beta[1]

\* C26: a step of async_recall draws an index idx of 0..D-1 and leaves every
\* entry other than idx as it was; entry idx is kept or sign-negated.
C26_StepChangesAtMostTheDrawnEntry ==
    [][\A q \in Queries :
          Len(frames'[q]) = Len(frames[q]) + 1 =>
              LET idx == DrawnIdx(q, Len(frames[q]) + 1)
                  D == Len(sigma0[q])
              IN  /\ idx \in 0..(D - 1)
                  /\ Len(sigma'[q]) = D
                  /\ \A i \in 1..D :
                        i # idx + 1 => sigma'[q][i] = sigma[q][i]
                  /\ sigma'[q][idx + 1] \in
                        {sigma[q][idx + 1], -sigma[q][idx + 1]}
                  /\ Last(frames'[q]) = sigma'[q]]_vars

\* The last entry was drawn and negated in the first step, the first entry
\* drawn and left alone in the second.
C26_Witness ==
    \E q \in Queries :
        /\ Len(frames[q]) = 2
        /\ Len(sigma0[q]) >= 2
        /\ DrawnIdx(q, 1) = Len(sigma0[q]) - 1
        /\ DrawnIdx(q, 2) = 0
        /\ frames[q][1] = FlipBit(sigma0[q], Len(sigma0[q]) - 1)
        /\ frames[q][2] = frames[q][1]

\* C27: the energy recorded at step t is the energy function evaluated on
\* the state recorded at step t, for every step of every run.
C27_RecordedEnergyIsEnergyOfRecordedState ==
    \A q \in Queries :
        /\ Len(energies[q]) = Len(frames[q])
        /\ \A t \in DOMAIN frames[q] :
              energies[q][t] = energy(am, frames[q][t])

\* A flip was kept in the first step, and in the second a flip to a higher
\* energy was rejected.
C27_Witness ==
    \E q \in Queries :
        /\ Len(frames[q]) = 2
        /\ frames[q][1] # sigma0[q]
        /\ frames[q][2] = frames[q][1]
        /\ energy(am, FlipBit(frames[q][1], DrawnIdx(q, 2))) > energies[q][2]

\* C28: a returned recall has made all its nsteps steps, also when a state
\* that no flip improves was reached before; its final state is the last
\* recorded state when nsteps >= 1 and the initial query, with nothing
\* recorded, when nsteps = 0.
C28_FinalStateIsLastFrameOfFullRun ==
    \A q \in Queries :
        pc[q] = "done" =>
            /\ Len(frames[q]) = nsteps
            /\ Len(energies[q]) = nsteps
            /\ nsteps >= 1 => final_x[q] = Last(frames[q])
            /\ nsteps = 0 => final_x[q] = sigma0[q]

\* A recall of two steps has returned that was at a local minimum after its
\* first step, having moved there.
C28_Witness ==
    \E q \in Queries :
        /\ pc[q] = "done"
        /\ nsteps = 2
        /\ frames[q][1] # sigma0[q]
        /\ LocalMinimum(am, frames[q][1])
        /\ final_x[q] = frames[q][2]

\* The states of the recall of query q so far: the query, then the recorded
\* states.
States(q) == <<sigma0[q]>> \o frames[q]

\* C29: a state that a recall has left (the next state differs from it) is
\* the state of no later step.
C29_LeftStateNeverRevisited ==
    \A q \in Queries :
        LET states == States(q)
        IN  \A s \in 1..(Len(states) - 1) :
                states[s] # states[s + 1] =>
                    \A t \in (s + 1)..Len(states) : states[t] # states[s]

\* The query was left in the first step, and the second step drew the same
\* index again: the flip back to the query was rejected.
C29_Witness ==
    \E q \in Queries :
        /\ Len(frames[q]) = 2
        /\ frames[q][1] # sigma0[q]
        /\ DrawnIdx(q, 2) = DrawnIdx(q, 1)
        /\ frames[q][2] = frames[q][1]

\* An async_update on a CHN has returned.
CHNUpdateDone ==
    /\ call # <<>>
    /\ call.fn = "async_update"
    /\ call.pc = "done"
    /\ call.args.self.cls = "CHN"

KeptFlip(q, t) == frames[q][t] # StateBefore(q, t)

\* The flip tried in step t of query q strictly lowers the un-logged energy.
LowersUnlogged(q, t) ==
    UnloggedSum(am, FlipBit(StateBefore(q, t), DrawnIdx(q, t)))
        > UnloggedSum(am, StateBefore(q, t))

C22_EventuallyAtALocalMinimum ==
    /\ <>[](pc[1] = "scan" /\ LocalMinimum(am, sigma[1]))
    /\ <>[][sigma' = sigma]_vars

\* The recall has moved from the query to a local minimum two or more flips
\* away.
C22_Witness ==
    /\ pc[1] = "scan"
    /\ nsteps = Unbounded
    /\ LocalMinimum(am, sigma[1])
    /\ Cardinality({i \in DOMAIN sigma[1] : sigma[1][i] # sigma0[1][i]}) >= 2

\* The number of entries in which two patterns differ.
Hamming(a, b) == Cardinality({i \in DOMAIN a : a[i] # b[i]})

\* The query is strictly closer to the negated stored pattern than to the
\* stored pattern.
CloserToInverted ==
    Hamming(sigma0[1], Negate(am.Xi[1])) < Hamming(sigma0[1], am.Xi[1])

\* C21: under the quadratic energy with one stored pattern xi and a query
\* strictly closer to -xi than to xi, every accepted flip brings the state
\* closer to -xi, no update moves the state away from -xi, and a recall that
\* draws every index again and again ends in -xi and stays there.
C21_ConvergesToInvertedPattern ==
    /\ [][(pc[1] = "scan" /\ CloserToInverted /\ sigma'[1] # sigma[1])
            => Hamming(sigma'[1], Negate(am.Xi[1]))
                 < Hamming(sigma[1], Negate(am.Xi[1]))]_vars
    /\ [][(pc[1] = "scan" /\ sigma[1] = Negate(am.Xi[1]))
            => sigma'[1] = sigma[1]]_vars
    /\ (CloserToInverted => <>[](sigma[1] = Negate(am.Xi[1])))

\* A recall that started two flips away from -xi has reached -xi.
C21_Witness ==
    /\ pc[1] = "scan"
    /\ nsteps = Unbounded
    /\ am.cls = "CHN"
    /\ Len(am.Xi) = 1
    /\ CloserToInverted
    /\ Hamming(sigma0[1], Negate(am.Xi[1])) = 2
    /\ sigma[1] = Negate(am.Xi[1])
    /\ bitflip_sequence[1] # <<>>

\* A gradient step has just been taken: the scan has recorded one more energy.
GdStepTaken ==
    /\ gd_pc = "scan"
    /\ gd_pc' = "scan"
    /\ Len(traj_outputs'.energy) = Len(traj_outputs.energy) + 1

\* The documented step on the carried tokens: the energy and the gradient
\* are taken at the normalized tokens, the tokens themselves are moved, and
\* the energy of the normalized tokens is recorded.
GdStepLaw ==
    LET normalized == lnorm_call(gd_model.lnorm, gd_x)
        gradient == et_grad(gd_model.et, normalized)
    IN  /\ \A n \in DOMAIN gd_x : \A d \in DOMAIN gd_x[n] :
              gd_x'[n][d] = gd_x[n][d] - Mul(gd_args.step_size, gradient[n][d])
        /\ Last(traj_outputs'.energy) = et_energy(gd_model.et, normalized)

\* The normalized tokens of the step are recorded next to its energy.
GdPairRecorded ==
    /\ Len(traj_outputs'.xhat) = Len(traj_outputs'.energy)
    /\ Last(traj_outputs'.xhat) = lnorm_call(gd_model.lnorm, gd_x)

\* The scan is about to take its first step.
GdBeforeFirstStep ==
    gd_pc = "scan" /\ traj_outputs.energy = <<>> /\ gd_args.nsteps > 0

\* C25 as stated, for both gradient descents: every step follows the law and
\* records the pair, and the first step starts from the caller's tokens, so
\* that they are normalized once, inside the step.
C25_StepNormalizesOnceAndRecordsPair ==
    /\ [][GdStepTaken => (GdStepLaw /\ GdPairRecorded)]_vars
    /\ [](GdBeforeFirstStep => gd_x = gd_args.x_init)

\* C25: every gradient step of __call__ and of energy_recall takes the energy
\* and the gradient at the normalized carry and moves the carry itself;
\* __call__ records the pair and starts from the caller's tokens, energy_recall
\* records the energy alone and starts from the caller's tokens normalized.
C25_StepLawPerDescent ==
    /\ [][GdStepTaken =>
            /\ GdStepLaw
            /\ gd_args.fn = "__call__" => GdPairRecorded
            /\ gd_args.fn = "energy_recall" => traj_outputs'.xhat = <<>>]_vars
    /\ [](GdBeforeFirstStep =>
            gd_x = IF gd_args.fn = "__call__" THEN gd_args.x_init
                   ELSE lnorm_call(gd_model.lnorm, gd_args.x_init))

\* __call__ has taken two steps from tokens that were not normalized, and its
\* carry is not normalized either.
C25_Witness ==
    /\ gd_pc = "scan"
    /\ gd_args.fn = "__call__"
    /\ Len(traj_outputs.energy) >= 2
    /\ Len(traj_outputs.xhat) = Len(traj_outputs.energy)
    /\ lnorm_call(gd_model.lnorm, gd_args.x_init) # gd_args.x_init
    /\ lnorm_call(gd_model.lnorm, gd_x) # gd_x

\* What am.async_recall returns for the arguments of the call.
RecallOf(a) ==
    LET out == async_recall(a.am, a.sigma_noisy, a.nsteps, a.key)
    IN  <<out[1], out[2], out[3]>>

\* The step is one cached_recall.
CachedRecallTaken ==
    /\ call.fn = "cached_recall"
    /\ call.pc = "call"
    /\ call'.pc = "done"

\* cached_recall finds a file of its cache name that it may load.
CacheHit == call.args.cache_name \in DOMAIN call.files /\ call.CACHE_RECALL

\* A file is written only by a call that ran the recall with save true.
WrittenOnlyByASavingRecall ==
    call'.files # call.files => (~CacheHit /\ call.args.save)

\* C30 as stated: every cached_recall returns what am.async_recall returns
\* for its own arguments, and a file is written only when the recall ran and
\* save is true.
C30_ReturnsRecallOfItsArguments ==
    [][CachedRecallTaken =>
          /\ call'.ret = RecallOf(call.args)
          /\ WrittenOnlyByASavingRecall]_vars

\* C30: a cached_recall that finds no file of its cache name, or runs with
\* CACHE_RECALL false, returns what am.async_recall returns for its
\* arguments and, if save is true, writes that to the file; one that finds
\* the file with CACHE_RECALL true returns the contents of the file, which
\* an earlier recall wrote, and writes nothing.
C30_ReturnsRecallOrFileContents ==
    [][CachedRecallTaken =>
          /\ ~CacheHit =>
                /\ call'.ret = RecallOf(call.args)
                /\ call.args.save =>
                      /\ call.args.cache_name \in DOMAIN call'.files
                      /\ call'.files[call.args.cache_name]
                           = savez(call'.ret[1], call'.ret[2], call'.ret[3])
          /\ CacheHit =>
                /\ call'.ret[1] = call.files[call.args.cache_name].sigma_final
                /\ call'.ret[2] = call.files[call.args.cache_name].frames
                /\ call'.ret[3] = call.files[call.args.cache_name].energies
                /\ \E a \in CachedRecallArgs :
                      /\ a.cache_name = call.args.cache_name
                      /\ a.save
                      /\ call'.ret = RecallOf(a)
          /\ WrittenOnlyByASavingRecall]_vars

\* A call has loaded the file of its cache name while its own arguments give
\* another recall.
C30_Witness ==
    /\ call.fn = "cached_recall"
    /\ call.pc = "done"
    /\ call.CACHE_RECALL
    /\ call.calls >= 2
    /\ call.stdout = <<"Loading cached recall data">>
    /\ call.ret # RecallOf(call.args)

====
